---------------------------- MODULE Spec2Model ----------------------------
(***************************************************************************)
(* Verification model of the Talisay image pipeline:                       *)
(*   - TalisayGuard.verify            (src/ml/models/talisay_guard.py)      *)
(*   - DimensionEstimator             (src/ml/models/dimension_estimator.py)*)
(*   - TalisayPredictor.analyze_image (src/ml/predict.py)                   *)
(*   - FruitRegionSegmenter, TalisayValidator and the Flask server api.py   *)
(*                                                                         *)
(* The specifications share the definitions:                               *)
(*   Spec           TalisayGuard.verify called on its own, gate by gate    *)
(*   SpecEstimator  one call of a DimensionEstimator method on an          *)
(*                  estimator constructed with any reference type          *)
(*   SpecAnalyze    analyze_image from the image load to the return, the   *)
(*                  guard's gates included                                 *)
(*   SpecSession    analyze_image calls one after another on one predictor *)
(*   SpecColour, SpecBands, SpecCapsicum, SpecShape                        *)
(*                  one layer of the guard called on its own               *)
(*   SpecCoinPass   DimensionEstimator._detect_coin_reference              *)
(*   SpecRefine     FruitRegionSegmenter._refine_fruit_mask                *)
(*   SpecValidator  TalisayValidator.validate, steps 1 and 2               *)
(*   SpecApi        request threads of api.py around _ensure_predictor     *)
(*                                                                         *)
(* Units.  Coverages, scores, circularity, solidity and aspect ratio are   *)
(* integers in thousandths (0.30 is 300, aspect 1.25 is 1250).  The        *)
(* composite score is kept in millionths before it is rounded.  Image      *)
(* measurements (pixel statistics that OpenCV computes) are inputs of the  *)
(* layer that reads them, drawn from small sets that straddle every        *)
(* threshold the layer compares them with.  Comparisons are exact.         *)
(***************************************************************************)
EXTENDS Integers, Sequences, FiniteSets, TLC

VARIABLES
    pc,          \* position inside TalisayGuard.verify ("idle": not called)
    layers,      \* verify's local dict "layers": layer name -> layer result
    layerOrder,  \* insertion order of the keys of "layers"
    fruit_mask,  \* measurements of the fruit mask verify works on
    mask_colour, \* Talisay band coverages of the mask pixels (hsv[mask > 0])
    green_sat,   \* count and median of green_sat_vals (the image's S channel
                 \* under the Talisay-green mask the person layer first builds)
    ret,         \* the dict verify returned (NoRet while it is running)
    apc,             \* position of the caller: inside analyze_image, or the
                     \* direct caller of the guard or of the estimator
    entry,           \* the method of TalisayPredictor the call came in by
    image,           \* what is known of the picture verify is given
    reference_type,  \* DimensionEstimator.reference_type
    est_ret,         \* the last DimensionEstimator call and what it returned
    skip_fruit_validation, \* analyze_image's argument
    calls,           \* the components analyze_image has called so far
    yolo_fruit_info, \* analyze_image's local yolo_fruit_info
    coin_info,       \* analyze_image's local coin_info
    dim_result,      \* analyze_image's local dim_result
    segmentation_result, \* analyze_image's local segmentation_result
    result,          \* analyze_image's result dict
    predictor,               \* api.py's global predictor
    predictor_error,         \* api.py's global predictor_error
    predictor_initialized,   \* api.py's guard flag _predictor_initialized
    PREDICTOR_IMPORT_ERROR,  \* None when "from predict import
                             \* TalisayPredictor" succeeded at start-up
    tpc,             \* position of each request thread of the Flask server
    response         \* what each request thread last answered

guard_vars == <<pc, layers, layerOrder, fruit_mask, mask_colour, green_sat, ret>>

estimator_vars == <<reference_type, est_ret>>

analysis_vars ==
    <<skip_fruit_validation, calls, yolo_fruit_info, coin_info, dim_result,
      segmentation_result, result>>

api_vars ==
    <<predictor, predictor_error, predictor_initialized, PREDICTOR_IMPORT_ERROR,
      tpc, response>>

\* what a step of TalisayGuard.verify leaves alone
caller_vars == <<apc, entry, image, estimator_vars, analysis_vars, api_vars>>

vars == <<guard_vars, caller_vars>>

\* ----------------------------------------------------------------------
\* Generic helpers
\* ----------------------------------------------------------------------
\* dict.get(key, default)
Get(d, key, default) == IF key \in DOMAIN d THEN d[key] ELSE default

Abs(x) == IF x < 0 THEN -x ELSE x

Min(a, b) == IF a < b THEN a ELSE b

Max(a, b) == IF a > b THEN a ELSE b

\* n/d rounded to the nearest integer, n >= 0, d > 0, a tie going up
RoundDiv(n, d) == (2 * n + d) \div (2 * d)

\* round(x, 3) of a value x given in millionths.  Python rounds the binary
\* double, so an exact decimal tie (...500) can fall to either neighbour.
Round3(micro) ==
    IF micro % 1000 = 500
    THEN {micro \div 1000, micro \div 1000 + 1}
    ELSE {(micro + 500) \div 1000}

NoRet == [returned |-> FALSE]

NoMask == [built |-> FALSE]

EmptyDict == [k \in {} |-> 0]

\* d[key] = val for a Python dict assignment
Put(d, key, val) == [k \in (DOMAIN d) \cup {key} |-> IF k = key THEN val ELSE d[k]]

\* ----------------------------------------------------------------------
\* talisay_guard.py: module constants (thousandths)
\* ----------------------------------------------------------------------
MIN_GUARD_SCORE == 550

MIN_POSITIVE_LAYERS == 3

MIN_TALISAY_COLOUR_COV == 300

MAX_SKIN_COVERAGE == 250

MAX_CAPSICUM_SCORE == 450

\* GuardVerdict
REJECT_KINDS ==
    {"reject_blank", "reject_person", "reject_capsicum",
     "reject_non_talisay_fruit", "reject_wrong_shape", "reject_wrong_colour",
     "reject_wrong_texture", "reject_low_confidence", "reject_generic"}

GuardVerdict == {"accept"} \cup REJECT_KINDS

\* ----------------------------------------------------------------------
\* LAYER 1: _check_blank_image
\*   global_var : variance of the grey image
\*   edge_ratio : Canny edge pixels / pixels          (thousandths)
\*   low_sat    : pixels with saturation < 15 / pixels (thousandths)
\*   value_var  : variance of the V channel
\* ----------------------------------------------------------------------
check_blank_image(global_var, edge_ratio, low_sat, value_var) ==
    IF global_var < 80
    THEN [is_blank |-> TRUE, reason |-> "extremely_low_variance",
          variance |-> global_var]
    ELSE IF edge_ratio < 5
    THEN [is_blank |-> TRUE, reason |-> "no_edges", edge_ratio |-> edge_ratio]
    ELSE IF low_sat > 900 /\ value_var < 300
    THEN [is_blank |-> TRUE, reason |-> "uniform_grey_white",
          low_sat_coverage |-> low_sat]
    ELSE [is_blank |-> FALSE]

\* ----------------------------------------------------------------------
\* LAYER 2: _check_person
\*   skin_coverage     : pixels in the HSV and the YCrCb skin range
\*   strong_rescue_cov : pixels in the Talisay green or yellow band
\*   total_rescue_cov  : pixels in strong_rescue or (brown and not skin)
\*   faces_found       : faces the Haar cascade reports (0 without cascade)
\* ----------------------------------------------------------------------
\* variant: the brown rescue without its "skin_coverage < 0.45" condition
check_person_noskincap(skin_coverage, strong_rescue_cov, total_rescue_cov, faces_found) ==
    IF faces_found > 0 /\ strong_rescue_cov < 50
    THEN [is_person |-> TRUE, faces_found |-> faces_found,
          talisay_coverage |-> total_rescue_cov,
          strong_rescue_coverage |-> strong_rescue_cov,
          reason |-> "face_detected"]
    ELSE IF skin_coverage > MAX_SKIN_COVERAGE
    THEN IF strong_rescue_cov >= 80 \/ total_rescue_cov >= 200
         THEN [is_person |-> FALSE, faces_found |-> faces_found,
               skin_coverage |-> skin_coverage,
               talisay_coverage |-> total_rescue_cov,
               strong_rescue_coverage |-> strong_rescue_cov,
               reason |-> "skin_detected_but_talisay_present"]
         ELSE [is_person |-> TRUE, skin_coverage |-> skin_coverage,
               talisay_coverage |-> total_rescue_cov,
               strong_rescue_coverage |-> strong_rescue_cov,
               reason |-> "excessive_skin_colour"]
    ELSE [is_person |-> FALSE, faces_found |-> 0,
          skin_coverage |-> skin_coverage,
          talisay_coverage |-> total_rescue_cov,
          strong_rescue_coverage |-> strong_rescue_cov]

check_person(skin_coverage, strong_rescue_cov, total_rescue_cov, faces_found) ==
    IF faces_found > 0 /\ strong_rescue_cov < 50
    THEN [is_person |-> TRUE, faces_found |-> faces_found,
          talisay_coverage |-> total_rescue_cov,
          strong_rescue_coverage |-> strong_rescue_cov,
          reason |-> "face_detected"]
    ELSE IF skin_coverage > MAX_SKIN_COVERAGE
    THEN IF strong_rescue_cov >= 80
         THEN [is_person |-> FALSE, faces_found |-> faces_found,
               skin_coverage |-> skin_coverage,
               talisay_coverage |-> total_rescue_cov,
               strong_rescue_coverage |-> strong_rescue_cov,
               reason |-> "skin_detected_but_talisay_present"]
         ELSE IF total_rescue_cov >= 200 /\ skin_coverage < 450
         THEN [is_person |-> FALSE, faces_found |-> faces_found,
               skin_coverage |-> skin_coverage,
               talisay_coverage |-> total_rescue_cov,
               strong_rescue_coverage |-> strong_rescue_cov,
               reason |-> "moderate_skin_with_brown_talisay"]
         ELSE [is_person |-> TRUE, skin_coverage |-> skin_coverage,
               talisay_coverage |-> total_rescue_cov,
               strong_rescue_coverage |-> strong_rescue_cov,
               reason |-> "excessive_skin_colour"]
    ELSE [is_person |-> FALSE, faces_found |-> 0,
          skin_coverage |-> skin_coverage,
          talisay_coverage |-> total_rescue_cov,
          strong_rescue_coverage |-> strong_rescue_cov]

\* ----------------------------------------------------------------------
\* LAYER 3: _check_capsicum
\*   m : the fruit mask's measurements (pixel count, largest contour)
\*   siling_colour_cov : mask pixels in a siling green/red band (thousandths)
\*   texture_var       : standard deviation of the grey mask pixels
\*   mean_sat          : mean saturation of the mask pixels
\*   relative_width    : ellipse minor axis / max(img_w, img_h) (thousandths)
\* ----------------------------------------------------------------------
\* capsicum_score is a Python float, a binary double.  A running sum is kept
\* as v, the thousandths it stands for, and dev: 0 when it is the double
\* nearest to v / 1000, 1 when it is the next double above, -1 when it is
\* the next double below.
Float(v, dev) == [v |-> v, dev |-> dev]

\* The additions "capsicum_score += w" whose result is not the double
\* nearest to the decimal sum, as <<v, dev, w, dev after the addition>>:
\* 0.2 + 0.1 is 0.30000000000000004, 0.35 + 0.1 is 0.44999999999999996.
\* Every other addition the layer can make gives the nearest double.
InexactSums ==
    { <<200, 0, 100, 1>>, <<300, 0, 150, -1>>, <<300, 1, 150, 1>>,
      <<350, 0, 100, -1>>, <<450, -1, 100, -1>>, <<550, 0, 150, 1>>,
      <<700, 0, 100, -1>>, <<950, 0, 150, -1>> }

\* capsicum_score += w
float_add(s, w) ==
    LET hit == { t \in InexactSums : t[1] = s.v /\ t[2] = s.dev /\ t[3] = w }
    IN Float(s.v + w, IF hit = {} THEN 0 ELSE (CHOOSE t \in hit : TRUE)[4])

\* if criterion: capsicum_score += w
add_if(s, criterion, w) == IF criterion THEN float_add(s, w) ELSE s

\* s >= limit / 1000, limit / 1000 being the double nearest to that decimal
float_ge(s, limit) == s.v > limit \/ (s.v = limit /\ s.dev >= 0)

\* the float the layer has accumulated when it reaches its last line
capsicum_sum(m, siling_colour_cov, texture_var, mean_sat, relative_width) ==
    LET colour == add_if(Float(0, 0), siling_colour_cov > 300, 200)
        long == add_if(colour, m.aspect > 2500, 250)
        very_long == add_if(long, m.aspect > 3500, 150)
        ragged == add_if(very_long, m.circularity < 450, 150)
        glossy == add_if(ragged, texture_var < 25, 100)
        saturated == add_if(glossy, mean_sat > 120, 100)
    IN add_if(saturated, m.points >= 5 /\ relative_width < 60, 150)

\* round(capsicum_score, 3), in thousandths
capsicum_score(m, siling_colour_cov, texture_var, mean_sat, relative_width) ==
    capsicum_sum(m, siling_colour_cov, texture_var, mean_sat,
                 relative_width).v

check_capsicum(m, siling_colour_cov, texture_var, mean_sat, relative_width) ==
    IF m.area < 200
    THEN [is_capsicum |-> FALSE, score |-> 0]
    ELSE IF ~m.has_contour
    THEN [is_capsicum |-> FALSE, score |-> 0]
    ELSE IF m.contour_area < 100
    THEN [is_capsicum |-> FALSE, score |-> 0]
    ELSE LET sc == capsicum_score(m, siling_colour_cov, texture_var,
                                  mean_sat, relative_width)
         IN [is_capsicum |-> float_ge(capsicum_sum(m, siling_colour_cov,
                                                   texture_var, mean_sat,
                                                   relative_width),
                                      MAX_CAPSICUM_SCORE),
             score |-> sc,
             aspect_ratio |-> 10 * ((m.aspect + 5) \div 10),
             circularity |-> m.circularity,
             siling_colour_coverage |-> siling_colour_cov,
             mean_saturation |-> mean_sat]

\* ----------------------------------------------------------------------
\* LAYER 4: _check_non_talisay_colours
\*   reject_colours, in the dict's order, with the substring tests the
\*   rescue makes on the label ("dark" in detected or "white" in detected)
\* ----------------------------------------------------------------------
reject_colours ==
    << [label |-> "red fruit (apple, tomato, red pepper)", rescuable |-> FALSE],
       [label |-> "orange fruit (orange, tangerine)", rescuable |-> FALSE],
       [label |-> "pink/magenta fruit (dragon fruit)", rescuable |-> FALSE],
       [label |-> "purple fruit (grape, mangosteen)", rescuable |-> FALSE],
       [label |-> "blue object", rescuable |-> FALSE],
       [label |-> "white/bright object (paper, screen)", rescuable |-> TRUE],
       [label |-> "very dark object (dark screen)", rescuable |-> TRUE] >>

\* the loop "if cov > max_cov: max_cov = cov; detected = label" over the
\* first n bands; covs[i] is the coverage of band i (thousandths)
RECURSIVE max_band(_, _)
max_band(covs, n) ==
    IF n = 0
    THEN [max_cov |-> 0, detected |-> 0]
    ELSE LET prev == max_band(covs, n - 1)
         IN IF covs[n] > prev.max_cov
            THEN [max_cov |-> covs[n], detected |-> n]
            ELSE prev

\* variant: the rescue applies whatever band was detected
check_non_talisay_colours_rescue_any(n_pixels, covs, c) ==
    IF n_pixels < 100
    THEN [is_non_talisay |-> FALSE, detected_type |-> "None"]
    ELSE LET mb == max_band(covs, Len(reject_colours))
             talisay_cov == c.g_cov + c.y_cov + c.b_cov
             over == mb.max_cov > 300
             is_bad == IF over /\ mb.detected # 0 /\ talisay_cov > 120
                       THEN FALSE
                       ELSE over
         IN [is_non_talisay |-> is_bad,
             detected_type |-> IF is_bad THEN reject_colours[mb.detected].label
                                         ELSE "None",
             coverage |-> mb.max_cov]

\*   n_pixels : len(pixels), the mask's pixel count
\*   c        : the mask pixels' Talisay band coverages (g_cov, y_cov, b_cov)
check_non_talisay_colours(n_pixels, covs, c) ==
    IF n_pixels < 100
    THEN [is_non_talisay |-> FALSE, detected_type |-> "None"]
    ELSE LET mb == max_band(covs, Len(reject_colours))
             talisay_cov == c.g_cov + c.y_cov + c.b_cov
             over == mb.max_cov > 300
             is_bad == IF over /\ mb.detected # 0
                          /\ reject_colours[mb.detected].rescuable
                          /\ talisay_cov > 120
                       THEN FALSE
                       ELSE over
         IN [is_non_talisay |-> is_bad,
             detected_type |-> IF is_bad THEN reject_colours[mb.detected].label
                                         ELSE "None",
             coverage |-> mb.max_cov]

\* ----------------------------------------------------------------------
\* LAYER 5: _check_talisay_colour
\*   c : [g_cov, y_cov, b_cov, total_cov] of the mask pixels (thousandths);
\*       total_cov is the coverage of the union of the three bands
\* ----------------------------------------------------------------------
dominant_colour(c) ==
    IF c.g_cov >= c.y_cov /\ c.g_cov >= c.b_cov THEN "green"
    ELSE IF c.y_cov >= c.b_cov THEN "yellow"
    ELSE "brown"

dominant_coverage(c) == Max(c.g_cov, Max(c.y_cov, c.b_cov))

\* variant: the score is halved when the dominant band reaches 15%
colour_score_halved_above(c) ==
    IF dominant_coverage(c) >= 150
    THEN RoundDiv(Min(3000, 5 * c.total_cov), 6)
    ELSE RoundDiv(Min(3000, 5 * c.total_cov), 3)

\* min(1.0, total_cov / 0.60), halved when the dominant band is below 15%,
\* then round(score, 3)
colour_score(c) ==
    IF dominant_coverage(c) < 150
    THEN RoundDiv(Min(3000, 5 * c.total_cov), 6)
    ELSE RoundDiv(Min(3000, 5 * c.total_cov), 3)

colour_passes(c) ==
    c.total_cov >= MIN_TALISAY_COLOUR_COV /\ ~(dominant_coverage(c) < 150)

check_talisay_colour(n_pixels, c) ==
    IF n_pixels < 200
    THEN [passes |-> FALSE, score |-> 0, coverage |-> 0]
    ELSE [passes |-> colour_passes(c),
          score |-> colour_score(c),
          coverage |-> c.total_cov,
          dominant_colour |-> dominant_colour(c),
          dominant_coverage |-> dominant_coverage(c),
          breakdown |-> [green |-> c.g_cov, yellow |-> c.y_cov,
                         brown |-> c.b_cov]]

\* ----------------------------------------------------------------------
\* LAYER 6: _check_talisay_shape
\*   self._talisay_aspect_range      = (1.25, 2.40)
\*   self._talisay_circularity_range = (0.35, 0.80)
\*   self._talisay_solidity_range    = (0.80, 1.0)
\* The score is kept in units of 1/23000 so that the aspect term
\*   0.40 * (1 - |aspect - 1.825| / 0.575)  =  (9200 - 16*|a - 1825|) / 23000
\* is exact; round(score, 3) is taken at the end.
\* ----------------------------------------------------------------------
aspect_term(aspect) ==
    IF 1250 <= aspect /\ aspect <= 2400
    THEN 9200 - 16 * Abs(aspect - 1825)
    ELSE IF 1100 <= aspect /\ aspect <= 2600
    THEN 23 * 150
    ELSE 0

circularity_term(circularity) ==
    IF 350 <= circularity /\ circularity <= 800
    THEN 23 * 300
    ELSE IF 250 <= circularity /\ circularity <= 850
    THEN 23 * 120
    ELSE 0

solidity_term(solidity) ==
    IF solidity >= 800
    THEN 23 * 300
    ELSE IF solidity >= 720
    THEN 23 * 120
    ELSE 0

shape_score23(m) ==
    aspect_term(m.aspect) + circularity_term(m.circularity)
        + solidity_term(m.solidity)

shape_passes(m) ==
    /\ shape_score23(m) >= 23 * 500
    /\ m.aspect >= 1100
    /\ m.aspect <= 3000
    /\ m.circularity <= 900

check_talisay_shape(m) ==
    IF ~m.has_contour
    THEN [passes |-> FALSE, score |-> 0]
    ELSE IF m.contour_area < 300
    THEN [passes |-> FALSE, score |-> 0]
    ELSE [passes |-> shape_passes(m),
          score |-> RoundDiv(shape_score23(m), 23),
          aspect_ratio |-> m.aspect,
          circularity |-> m.circularity,
          solidity |-> m.solidity]

\* ----------------------------------------------------------------------
\* LAYER 7: _check_talisay_texture
\*   std_val          : standard deviation of the grey mask pixels
\*   low_sat_high_val : mask pixels with S < 40 and V > 180 (thousandths)
\*   hue_std          : standard deviation of the mask pixels' hue
\*   lap_var          : variance of the Laplacian over the mask
\* ----------------------------------------------------------------------
texture_score(std_val, low_sat_high_val, hue_std, lap_var) ==
      (IF 15 < std_val /\ std_val < 70 THEN 350
       ELSE IF 10 < std_val /\ std_val < 80 THEN 150 ELSE 0)
    + (IF low_sat_high_val < 150 THEN 250
       ELSE IF low_sat_high_val < 250 THEN 100 ELSE 0)
    + (IF hue_std < 20 THEN 250
       ELSE IF hue_std < 30 THEN 120 ELSE 0)
    + (IF 50 < lap_var /\ lap_var < 3000 THEN 150
       ELSE IF 20 < lap_var /\ lap_var < 5000 THEN 50 ELSE 0)

\* the score is a float sum of the weights in the order above: 0.35 + 0.10
\* + 0.05 is 0.49999999999999994, every other sum is the decimal one
texture_sum_short(std_val, low_sat_high_val, hue_std, lap_var) ==
    /\ 15 < std_val /\ std_val < 70
    /\ 150 <= low_sat_high_val /\ low_sat_high_val < 250
    /\ hue_std >= 30
    /\ ~(50 < lap_var /\ lap_var < 3000)
    /\ 20 < lap_var /\ lap_var < 5000

\* variant: the texture layer passes from a score of 0.30
check_talisay_texture_lenient(n_pixels, std_val, low_sat_high_val, hue_std, lap_var) ==
    IF n_pixels < 200
    THEN [passes |-> FALSE, score |-> 0]
    ELSE LET sc == texture_score(std_val, low_sat_high_val, hue_std, lap_var)
         IN [passes |-> sc >= 300,
             score |-> sc,
             brightness_std |-> std_val,
             hue_std |-> hue_std,
             metallic_ratio |-> low_sat_high_val,
             laplacian_var |-> lap_var]

check_talisay_texture(n_pixels, std_val, low_sat_high_val, hue_std, lap_var) ==
    IF n_pixels < 200
    THEN [passes |-> FALSE, score |-> 0]
    ELSE LET sc == texture_score(std_val, low_sat_high_val, hue_std, lap_var)
         IN [passes |-> /\ sc >= 500
                        /\ ~texture_sum_short(std_val, low_sat_high_val,
                                              hue_std, lap_var),
             score |-> sc,
             brightness_std |-> std_val,
             hue_std |-> hue_std,
             metallic_ratio |-> low_sat_high_val,
             laplacian_var |-> lap_var]

\* ----------------------------------------------------------------------
\* _make_verdict: round(score, 3) of a score given in millionths
\* ----------------------------------------------------------------------
make_verdict(accepted, verdict, score3, layers_, reason) ==
    [returned |-> TRUE,
     accepted |-> accepted,
     verdict  |-> verdict,
     score    |-> score3,
     layers   |-> layers_,
     reason   |-> reason]

\* ----------------------------------------------------------------------
\* verify: COMPOSITE DECISION
\* ----------------------------------------------------------------------
positive_count(colour_result, shape_result, texture_result) ==
      (IF Get(colour_result, "passes", FALSE) THEN 1 ELSE 0)
    + (IF Get(shape_result, "passes", FALSE) THEN 1 ELSE 0)
    + (IF Get(texture_result, "passes", FALSE) THEN 1 ELSE 0)

\* variant: texture weighted 0.35, the weights no longer summing to 1
composite_score_heavy(colour_result, shape_result, texture_result) ==
      Get(colour_result, "score", 0) * 450
    + Get(shape_result, "score", 0) * 300
    + Get(texture_result, "score", 0) * 350

\* composite in millionths: scores are thousandths, weights 0.45/0.30/0.25
composite_score(colour_result, shape_result, texture_result) ==
      Get(colour_result, "score", 0) * 450
    + Get(shape_result, "score", 0) * 300
    + Get(texture_result, "score", 0) * 250

\* variant: two passing layers suffice whatever the composite
composite_accepts_two(count, composite) ==
    IF composite < 350000
    THEN FALSE
    ELSE count >= 2

\* "accepted" before the skin-sensitivity block
composite_accepts(count, composite) ==
    IF composite < 350000
    THEN FALSE
    ELSE \/ count >= MIN_POSITIVE_LAYERS
         \/ (count >= 2 /\ composite >= MIN_GUARD_SCORE * 1000)

was_rescued(person_info) ==
    /\ ~Get(person_info, "is_person", FALSE)
    /\ Get(person_info, "skin_coverage", 0) > MAX_SKIN_COVERAGE

\* variant: the vegetation check dropped from the skin-sensitivity block
skin_veto_noveg(person_info, count, g) ==
    /\ was_rescued(person_info)
    /\ count < MIN_POSITIVE_LAYERS
    /\ Get(person_info, "skin_coverage", 0) > 450

\* the skin-sensitivity block; g is [count, median] of the saturation of the
\* image's Talisay-green pixels
skin_veto(person_info, count, g) ==
    /\ was_rescued(person_info)
    /\ count < MIN_POSITIVE_LAYERS
    /\ IF Get(person_info, "skin_coverage", 0) > 450
       THEN TRUE
       ELSE /\ Get(person_info, "strong_rescue_coverage", 0) > 100
            /\ g.count > 100
            /\ g.median > 140

\* variant: shape failure reported before colour failure
rejection_kind_shapefirst(colour_result, shape_result) ==
    IF ~Get(shape_result, "passes", FALSE) THEN "reject_wrong_shape"
    ELSE IF ~Get(colour_result, "passes", FALSE) THEN "reject_wrong_colour"
    ELSE "reject_low_confidence"

\* the rejection reported by the composite stage
rejection_kind(colour_result, shape_result) ==
    IF ~Get(colour_result, "passes", FALSE) THEN "reject_wrong_colour"
    ELSE IF ~Get(shape_result, "passes", FALSE) THEN "reject_wrong_shape"
    ELSE "reject_low_confidence"

\* ----------------------------------------------------------------------
\* Inputs: what OpenCV measures on the image handed to verify
\* ----------------------------------------------------------------------
\* faces the cascade may report
MaxFaces == 1

\* grey variance, edge ratio, low-saturation coverage, V variance
BlankInputs ==
    { <<50, 50, 100, 2000>>,      \* featureless: variance below 80
      <<2000, 2, 100, 2000>>,     \* no edges
      <<2000, 50, 950, 100>>,     \* uniform grey/white screen
      <<2000, 50, 950, 2000>>,    \* desaturated but textured
      <<2000, 50, 100, 2000>> }   \* ordinary photo

\* pixel count and median saturation of the image's Talisay-green pixels
Green(count, median) == [count |-> count, median |-> median]

NoGreen == Green(0, 0)

\* skin coverage, green/yellow coverage, brown non-skin coverage outside
\* the green/yellow pixels (thousandths of the image), and the green
\* pixels' saturation statistics
PersonInputs ==
    { <<250, 0, 0, NoGreen>>,
      <<250, 110, 0, Green(4000, 100)>>,
      <<300, 0, 0, NoGreen>>,
      <<300, 70, 0, Green(4000, 100)>>,
      <<300, 70, 140, Green(4000, 100)>>,
      <<300, 0, 200, NoGreen>>,
      <<300, 80, 0, Green(4000, 100)>>,
      <<300, 100, 0, Green(4000, 100)>>,
      <<300, 100, 0, Green(4000, 150)>>,
      <<300, 110, 0, Green(80, 150)>>,
      <<300, 110, 0, Green(4000, 100)>>,
      <<300, 110, 0, Green(4000, 140)>>,
      <<300, 110, 0, Green(4000, 150)>>,
      <<450, 0, 200, NoGreen>>,
      <<460, 110, 0, Green(4000, 100)>> }

\* the fruit mask: pixel count, share of the image, and the largest
\* contour's area, point count, aspect ratio, circularity and solidity
Mask(area, coverage, contour_area, points, aspect, circularity, solidity) ==
    [built |-> TRUE, area |-> area, coverage |-> coverage,
     has_contour |-> area > 0, contour_area |-> contour_area,
     points |-> points, aspect |-> aspect, circularity |-> circularity,
     solidity |-> solidity]

MaskInputs ==
    { Mask(400, 20, 380, 30, 1000, 1000, 1000),     \* tiny disc
      Mask(6000, 100, 5900, 40, 1000, 1000, 1000),  \* small perfect circle
      Mask(6000, 100, 5900, 40, 1070, 910, 950),    \* small near-circle
      Mask(6000, 100, 5900, 40, 1080, 910, 950),    \* aspect at the gate
      Mask(6000, 120, 5900, 40, 1000, 1000, 1000),  \* circle at 12%
      Mask(6000, 100, 200, 12, 1600, 600, 900),     \* fragments: no shape
      Mask(20000, 300, 19000, 60, 1600, 600, 950),  \* almond
      Mask(20000, 300, 19000, 60, 2500, 400, 850),  \* long drupe
      Mask(20000, 300, 19000, 60, 3600, 300, 850),  \* chili
      Mask(20000, 300, 19000, 60, 1300, 300, 700),  \* ragged leaf
      Mask(20000, 300, 19000, 60, 1150, 880, 900),  \* plump
      Mask(20000, 300, 19000, 60, 1365, 600, 750),  \* dented: shape 0.50
      Mask(20000, 300, 20000, 4, 1500, 760, 1000) } \* detector box

\* siling colour coverage, grey std, mean saturation, relative width
CapsicumInputs ==
    { <<100, 40, 100, 200>>,      \* matt, wide
      <<400, 20, 130, 50>>,       \* glossy saturated thin pepper
      <<400, 20, 130, 200>>,      \* glossy saturated, wide
      <<100, 20, 100, 50>> }      \* glossy thin

\* coverage of the seven reject_colours bands, in the dict's order
BandCovs(red, orange, white, dark) == <<red, orange, 0, 0, 0, white, dark>>

NonTalisayInputs ==
    { BandCovs(0, 0, 0, 0), BandCovs(300, 0, 0, 0), BandCovs(500, 0, 0, 0),
      BandCovs(0, 350, 0, 0), BandCovs(0, 0, 400, 0), BandCovs(0, 0, 0, 400),
      BandCovs(400, 0, 0, 400) }

\* Talisay band coverages of the mask pixels; total_cov is the union
Colours(g, y, b, overlap) ==
    [g_cov |-> g, y_cov |-> y, b_cov |-> b, total_cov |-> g + y + b - overlap]

ColourInputs ==
    { Colours(0, 0, 0, 0), Colours(140, 140, 0, 0), Colours(140, 140, 140, 0),
      Colours(300, 0, 0, 0), Colours(400, 0, 0, 0), Colours(400, 140, 0, 0),
      Colours(400, 140, 140, 0), Colours(0, 0, 400, 0),
      Colours(200, 200, 0, 100) }

\* grey std, metallic share, hue std, Laplacian variance
TextureInputs ==
    { <<40, 50, 10, 500>>,        \* organic
      <<40, 50, 40, 500>>,        \* multi-coloured
      <<12, 50, 10, 500>>,        \* flat
      <<12, 400, 40, 500>>,       \* flat metallic
      <<40, 400, 25, 30>>,        \* shiny
      <<40, 400, 40, 500>>,       \* shiny, multi-coloured: 0.35 + 0.15
      <<40, 200, 40, 3500>>,      \* 0.35 + 0.10 + 0.05, short of 0.50
      <<5, 400, 40, 10>> }        \* featureless

\* ----------------------------------------------------------------------
\* TalisayGuard.verify, one action per gate
\* ----------------------------------------------------------------------
\* ----------------------------------------------------------------------
\* Pictures whose pixels are known: flat regions of one colour each.  A
\* region carries its share of the image (thousandths), its colour as
\* cv2.cvtColor gives it in HSV, its grey level, and whether its YCrCb
\* colour lies in the skin range of _check_person.  The first region is
\* the blob, with the measurements of its outline.  edge_ratio is the
\* share of Canny edge pixels, which depends on the resolution.
\* ----------------------------------------------------------------------
\* verify's argument when nothing is known of the picture: each layer's
\* measurements are then drawn from the input sets above
AnyImage == [known |-> FALSE]

Region(share, hsv, grey, ycrcb_skin) ==
    [share |-> share, hsv |-> hsv, grey |-> grey, ycrcb_skin |-> ycrcb_skin]

Picture(n_pixels, edge_ratio, outline, regions) ==
    [known |-> TRUE, n_pixels |-> n_pixels, edge_ratio |-> edge_ratio,
     outline |-> outline, regions |-> regions]

TALISAY_GREEN_HSV == [lower |-> <<30, 35, 35>>, upper |-> <<80, 255, 245>>]

TALISAY_YELLOW_HSV == [lower |-> <<18, 60, 70>>, upper |-> <<38, 255, 255>>]

TALISAY_BROWN_HSV == [lower |-> <<5, 30, 20>>, upper |-> <<26, 220, 200>>]

SKIN_HSV == [lower |-> <<0, 20, 70>>, upper |-> <<25, 170, 255>>]

\* the wider green of _build_fruit_mask
WIDER_GREEN_HSV == [lower |-> <<25, 30, 30>>, upper |-> <<90, 255, 255>>]

\* cv2.inRange on one pixel
in_range(px, band) ==
    \A i \in 1..3 : band.lower[i] <= px[i] /\ px[i] <= band.upper[i]

is_green(r) == in_range(r.hsv, TALISAY_GREEN_HSV)

is_yellow(r) == in_range(r.hsv, TALISAY_YELLOW_HSV)

is_brown(r) == in_range(r.hsv, TALISAY_BROWN_HSV)

\* combined_skin: the HSV skin range and the YCrCb skin range
is_skin(r) == in_range(r.hsv, SKIN_HSV) /\ r.ycrcb_skin

\* the pixels _build_fruit_mask selects by colour
in_colour_mask(r) ==
    is_green(r) \/ is_yellow(r) \/ is_brown(r) \/ in_range(r.hsv, WIDER_GREEN_HSV)

\* share of the image (thousandths) in the regions of index set S
RECURSIVE share_of(_, _)
share_of(img, S) ==
    IF S = {} THEN 0
    ELSE LET i == CHOOSE j \in S : TRUE
         IN img.regions[i].share + share_of(img, S \ {i})

RegionsOf(img) == DOMAIN img.regions

\* sum over the regions of share * f / 1000: the mean of a channel
RECURSIVE weighted(_, _, _)
weighted(img, S, channel) ==
    IF S = {} THEN 0
    ELSE LET i == CHOOSE j \in S : TRUE
         IN img.regions[i].share * channel[i] + weighted(img, S \ {i}, channel)

\* np.var of a channel, the channel given as one value per region
variance(img, channel) ==
    LET mean == weighted(img, RegionsOf(img), channel) \div 1000
        squares == [i \in RegionsOf(img) |-> (channel[i] - mean) * (channel[i] - mean)]
    IN weighted(img, RegionsOf(img), squares) \div 1000

\* the four measurements of _check_blank_image
blank_measurements(img) ==
    <<variance(img, [i \in RegionsOf(img) |-> img.regions[i].grey]),
      img.edge_ratio,
      share_of(img, {i \in RegionsOf(img) : img.regions[i].hsv[2] < 15}),
      variance(img, [i \in RegionsOf(img) |-> img.regions[i].hsv[3]])>>

\* the measurements of _check_person: skin coverage, green/yellow coverage,
\* brown non-skin coverage outside green/yellow, and the green pixels'
\* count and median saturation (the largest green region's saturation)
person_measurements(img) ==
    LET R == RegionsOf(img)
        green == {i \in R : is_green(img.regions[i])}
        strong == {i \in R : is_green(img.regions[i]) \/ is_yellow(img.regions[i])}
        brown == {i \in R \ strong :
                    is_brown(img.regions[i]) /\ ~is_skin(img.regions[i])}
        largest == CHOOSE i \in green :
                     \A j \in green : img.regions[j].share <= img.regions[i].share
    IN <<share_of(img, {i \in R : is_skin(img.regions[i])}),
         share_of(img, strong),
         share_of(img, brown),
         IF green = {} THEN NoGreen
         ELSE Green((img.n_pixels \div 1000) * share_of(img, green),
                    img.regions[largest].hsv[2])>>

\* _build_fruit_mask without a detector box: the regions whose colour lies
\* in a Talisay band or the wider green; of these, the ones above 1% of the
\* image when there is one, all of them otherwise.  The contour is the
\* blob's outline when the blob is in the mask.
build_fruit_mask(img) ==
    LET R == RegionsOf(img)
        coloured == {i \in R : in_colour_mask(img.regions[i])}
        valid == {i \in coloured : img.regions[i].share > 10}
        kept == IF valid # {} THEN valid ELSE coloured
        coverage == share_of(img, kept)
        area == (img.n_pixels \div 1000) * coverage
    IN IF 1 \in kept
       THEN Mask(area, coverage,
                 (img.n_pixels \div 1000) * img.regions[1].share,
                 img.outline.points, img.outline.aspect,
                 img.outline.circularity, img.outline.solidity)
       ELSE Mask(area, coverage, 0, 0, 0, 0, 0)

\* an oval blob of one colour on a white ground
Blob(n_pixels, edge_ratio, share, hsv, grey) ==
    Picture(n_pixels, edge_ratio,
            [points |-> 60, aspect |-> 1500, circularity |-> 800, solidity |-> 980],
            <<Region(share, hsv, grey, FALSE),
              Region(1000 - share, <<0, 0, 255>>, 255, FALSE)>>)

\* half the picture a pure-red blob (hue 0 to 4, saturation and value
\* about 200) on white: small pictures, and a large one whose outline is a
\* smaller share of the pixels
RedBlobs ==
    {Blob(40000, 12, 500, <<0, 200, 200>>, 90),
     Blob(40000, 12, 500, <<0, 190, 210>>, 97),
     Blob(40000, 12, 500, <<4, 200, 200>>, 102),
     Blob(40000, 12, 500, <<4, 210, 190>>, 93),
     Blob(1228000, 2, 500, <<0, 200, 200>>, 90)}

GuardImages == {AnyImage} \cup RedBlobs

NoColour == [measured |-> FALSE]

NoCall == [op |-> "none"]

\* The caller's variables before analyze_image or the estimator has done
\* anything.  A local that is None or not yet bound is the empty dict: the
\* code reads these locals only through their truth value and .get().
\* TalisayPredictor.__init__'s default reference_coin, which
\* _initialize_components constructs the DimensionEstimator with
reference_coin == "peso_5"

\* Python's None in a text field
NoneStr == "None"

\* api.py before the first request: lines 71-73, and the import at lines
\* 28-36 having succeeded
ServerIdle ==
    /\ predictor = NoneStr
    /\ predictor_error = NoneStr
    /\ predictor_initialized = FALSE
    /\ PREDICTOR_IMPORT_ERROR = NoneStr
    /\ tpc = <<>>
    /\ response = <<>>

CallerIdle(position) ==
    /\ apc = position
    /\ entry = "analyze_image"
    /\ reference_type = reference_coin
    /\ est_ret = NoCall
    /\ skip_fruit_validation = FALSE
    /\ calls = {}
    /\ yolo_fruit_info = EmptyDict
    /\ coin_info = EmptyDict
    /\ dim_result = EmptyDict
    /\ segmentation_result = EmptyDict
    /\ result = EmptyDict
    /\ ServerIdle

\* verify's locals before its first layer
GuardEntry ==
    /\ layers = EmptyDict
    /\ layerOrder = <<>>
    /\ fruit_mask = NoMask
    /\ mask_colour = NoColour
    /\ green_sat = NoGreen
    /\ ret = NoRet

\* TalisayGuard.verify called on its own
Init ==
    /\ pc = "blank"
    /\ image \in GuardImages
    /\ GuardEntry
    /\ CallerIdle("verify")

\* layers[name] = layer_result
SetLayer(name, layer_result) ==
    /\ layers' = Put(layers, name, layer_result)
    /\ layerOrder' = Append(layerOrder, name)

\* return self._make_verdict(...), with the layers dict as it then is
Return(accepted, verdict, score3, layers_, reason) ==
    /\ ret' = make_verdict(accepted, verdict, score3, layers_, reason)
    /\ pc' = "done"

\* LAYER 1
BlankLayer ==
    /\ pc = "blank"
    /\ \E i \in (IF image.known THEN {blank_measurements(image)} ELSE BlankInputs) :
         LET blank_result == check_blank_image(i[1], i[2], i[3], i[4])
         IN /\ SetLayer("blank", blank_result)
            /\ IF blank_result.is_blank
               THEN Return(FALSE, "reject_blank", 0, layers',
                           "The image appears to be blank or a plain screen.")
               ELSE pc' = "person" /\ UNCHANGED ret
    /\ UNCHANGED <<fruit_mask, mask_colour, green_sat>>
    /\ UNCHANGED caller_vars

\* LAYER 2
PersonLayer ==
    /\ pc = "person"
    /\ \E i \in (IF image.known THEN {person_measurements(image)} ELSE PersonInputs),
          faces \in (IF image.known THEN {0} ELSE 0..MaxFaces) :
         LET person_result == check_person(i[1], i[2], i[2] + i[3], faces)
         IN /\ SetLayer("person", person_result)
            /\ green_sat' = i[4]
            /\ IF person_result.is_person
               THEN Return(FALSE, "reject_person", 0, layers',
                           "A person or face was detected in the image.")
               ELSE pc' = "mask" /\ UNCHANGED ret
    /\ UNCHANGED <<fruit_mask, mask_colour>>
    /\ UNCHANGED caller_vars

\* variant: the mask-size gate missing, verify goes on to the capsicum layer
MaskGate_nogate ==
    /\ pc = "mask"
    /\ \E m \in MaskInputs : fruit_mask' = m
    /\ pc' = "capsicum"
    /\ UNCHANGED <<layers, layerOrder, mask_colour, green_sat, ret>>
    /\ UNCHANGED caller_vars

\* Build fruit mask if not provided; fruit_area < 500 rejects
MaskGate ==
    /\ pc = "mask"
    /\ \E m \in (IF image.known THEN {build_fruit_mask(image)} ELSE MaskInputs) :
         /\ fruit_mask' = m
         /\ IF m.area < 500
            THEN Return(FALSE, "reject_generic", 0, layers,
                        "No significant object detected in the image.")
            ELSE pc' = "capsicum" /\ UNCHANGED ret
    /\ UNCHANGED <<layers, layerOrder, mask_colour, green_sat>>
    /\ UNCHANGED caller_vars

\* what the layer measures on the mask pixels: of a picture known by its
\* capsicum measurements, those; of any other picture, any of CapsicumInputs
capsicum_measurements ==
    IF "capsicum" \in DOMAIN image THEN {image.capsicum} ELSE CapsicumInputs

\* LAYER 3
CapsicumLayer ==
    /\ pc = "capsicum"
    /\ \E i \in capsicum_measurements :
         LET capsicum_result == check_capsicum(fruit_mask, i[1], i[2], i[3], i[4])
         IN /\ SetLayer("capsicum", capsicum_result)
            /\ IF capsicum_result.is_capsicum
               THEN Return(FALSE, "reject_capsicum", 0, layers',
                           "This appears to be a Capsicum (Siling/Chili pepper).")
               ELSE pc' = "non_talisay_colour" /\ UNCHANGED ret
    /\ UNCHANGED <<fruit_mask, mask_colour, green_sat>>
    /\ UNCHANGED caller_vars

\* LAYER 4 (the first layer that reads the mask pixels' band coverages)
NonTalisayLayer ==
    /\ pc = "non_talisay_colour"
    /\ \E covs \in NonTalisayInputs, c \in ColourInputs :
         /\ covs[6] + covs[7] + c.total_cov <= 1000
         /\ mask_colour' = c
         /\ LET non_talisay_result ==
                    check_non_talisay_colours(fruit_mask.area, covs, c)
            IN /\ SetLayer("non_talisay_colour", non_talisay_result)
               /\ IF non_talisay_result.is_non_talisay
                  THEN Return(FALSE, "reject_non_talisay_fruit", 0, layers',
                              "This appears to be a non-Talisay item.")
                  ELSE pc' = "talisay_colour" /\ UNCHANGED ret
    /\ UNCHANGED <<fruit_mask, green_sat>>
    /\ UNCHANGED caller_vars

\* LAYER 5
ColourLayer ==
    /\ pc = "talisay_colour"
    /\ SetLayer("talisay_colour",
                check_talisay_colour(fruit_mask.area, mask_colour))
    /\ pc' = "talisay_shape"
    /\ UNCHANGED <<fruit_mask, mask_colour, green_sat, ret>>
    /\ UNCHANGED caller_vars

\* variant: the gate asks for an aspect ratio below 1.00
round_gate_strict(mask_coverage, shape_result) ==
    /\ mask_coverage < 120
    /\ Get(shape_result, "circularity", 1000) > 900
    /\ Get(shape_result, "aspect_ratio", 1000) < 1000

\* the SHAPE QUALITY GATE's condition
round_gate(mask_coverage, shape_result) ==
    /\ mask_coverage < 120
    /\ Get(shape_result, "circularity", 1000) > 900
    /\ Get(shape_result, "aspect_ratio", 1000) < 1080

\* LAYER 6 and the hard round-object gate
ShapeLayer ==
    /\ pc = "talisay_shape"
    /\ LET shape_result == check_talisay_shape(fruit_mask)
       IN /\ SetLayer("talisay_shape", shape_result)
          /\ IF round_gate(fruit_mask.coverage, shape_result)
             THEN Return(FALSE, "reject_wrong_shape", 0, layers',
                         "The detected object is too round to be a Talisay fruit.")
             ELSE pc' = "talisay_texture" /\ UNCHANGED ret
    /\ UNCHANGED <<fruit_mask, mask_colour, green_sat>>
    /\ UNCHANGED caller_vars

\* LAYER 7
TextureLayer ==
    /\ pc = "talisay_texture"
    /\ \E i \in TextureInputs :
         SetLayer("talisay_texture",
                  check_talisay_texture(fruit_mask.area, i[1], i[2], i[3], i[4]))
    /\ pc' = "composite"
    /\ UNCHANGED <<fruit_mask, mask_colour, green_sat, ret>>
    /\ UNCHANGED caller_vars

\* COMPOSITE DECISION, SKIN SENSITIVITY and the final return
CompositeDecision ==
    /\ pc = "composite"
    /\ LET colour_result == layers["talisay_colour"]
           shape_result == layers["talisay_shape"]
           texture_result == layers["talisay_texture"]
           person_info == Get(layers, "person", EmptyDict)
           count == positive_count(colour_result, shape_result, texture_result)
           composite == composite_score(colour_result, shape_result,
                                        texture_result)
           accepted == /\ composite_accepts(count, composite)
                       /\ ~skin_veto(person_info, count, green_sat)
           kind == rejection_kind(colour_result, shape_result)
       IN \E score3 \in Round3(composite) :
            IF accepted
            THEN Return(TRUE, "accept", score3, layers,
                        "Talisay fruit verified successfully.")
            ELSE Return(FALSE, kind, score3, layers,
                        CASE kind = "reject_wrong_colour" ->
                               "The colours in this image don't match Talisay fruit."
                          [] kind = "reject_wrong_shape" ->
                               "The shape doesn't match a Talisay fruit."
                          [] OTHER ->
                               "The image doesn't confidently match a Talisay fruit.")
    /\ UNCHANGED <<layers, layerOrder, fruit_mask, mask_colour, green_sat>>
    /\ UNCHANGED caller_vars



Next ==
    \/ BlankLayer
    \/ PersonLayer
    \/ MaskGate
    \/ CapsicumLayer
    \/ NonTalisayLayer
    \/ ColourLayer
    \/ ShapeLayer
    \/ TextureLayer
    \/ CompositeDecision

Spec == Init /\ [][Next]_vars

\* ======================================================================
\* DimensionEstimator (src/ml/models/dimension_estimator.py)
\*
\* Units.  Lengths in cm are integers in hundredths (2.45 cm is 245),
\* pixels_per_cm and confidences in thousandths, weights in tenths of a
\* gram, kernel mass in thousandths of a gram.  Pixel quantities are
\* integers.  What OpenCV finds in the image (the marker, the best circle
\* of the single pass, the scored candidates of the fast search, the fruit
\* contour and its fitted ellipse) is an input of the call.
\* ======================================================================
\* Python's None in a numeric field (no measurement is negative)
None == -1

\* bool(x) for a numeric field
Truthy(x) == x # None /\ x # 0

\* d.update(e)
Update(d, e) ==
    [k \in (DOMAIN d) \cup (DOMAIN e) |-> IF k \in DOMAIN e THEN e[k] ELSE d[k]]

\* np.clip(x, lo, hi)
Clip(x, lo, hi) == Max(lo, Min(hi, x))

\* the coin entries carry "diameter", the others do not
REFERENCE_OBJECTS ==
    ("peso_1_new" :> [diameter |-> 200, name |-> "P1 Coin (Silver, New)"]) @@
    ("peso_5_new" :> [diameter |-> 240, name |-> "P5 Coin (Silver, New)"]) @@
    ("peso_10_new" :> [diameter |-> 245, name |-> "P10 Coin (Silver/Gold, New)"]) @@
    ("peso_20_new" :> [diameter |-> 280, name |-> "P20 Coin (Silver/Gold, New)"]) @@
    ("peso_1_old" :> [diameter |-> 240, name |-> "P1 Coin (Brass, Old)"]) @@
    ("peso_5_old" :> [diameter |-> 250, name |-> "P5 Coin (Brass, Old)"]) @@
    ("peso_10_old" :> [diameter |-> 270, name |-> "P10 Coin (Bimetallic, Old)"]) @@
    ("peso_1" :> [diameter |-> 200, name |-> "P1 Coin (New Silver)"]) @@
    ("peso_5" :> [diameter |-> 240, name |-> "P5 Coin (New Silver)"]) @@
    ("peso_10" :> [diameter |-> 245, name |-> "P10 Coin (New)"]) @@
    ("peso_20" :> [diameter |-> 280, name |-> "P20 Coin (New)"]) @@
    ("credit_card" :> [width |-> 856, height |-> 540, name |-> "Credit/ID Card"]) @@
    ("a4_paper" :> [width |-> 2100, height |-> 2970, name |-> "A4 Paper"]) @@
    ("aruco_4x4" :> [size |-> 500, name |-> "ArUco Marker 5cm"])

\* self.reference_info as __init__ sets it
reference_info(type) ==
    Get(REFERENCE_OBJECTS, type, REFERENCE_OBJECTS["peso_5"])

\* the reference types whose entry is a coin
CoinTypes == {t \in DOMAIN REFERENCE_OBJECTS : "diameter" \in DOMAIN REFERENCE_OBJECTS[t]}

\* img.shape and the image diagonal sqrt(h^2 + w^2)
Image(h, w, diagonal) == [h |-> h, w |-> w, diagonal |-> diagonal]

\* _detect_aruco; a.available: aruco_dict is not None, a.marker_px: the
\* marker's mean side in pixels, 0 when no marker is found
detect_aruco(info, a) ==
    IF a.available /\ a.marker_px > 0
    THEN [detected |-> TRUE,
          pixels_per_cm |-> RoundDiv(a.marker_px * 100000, Get(info, "size", 500)),
          marker_size_px |-> a.marker_px,
          confidence |-> 950]
    ELSE [detected |-> FALSE]

\* int(v / scale) of _detect_coin_reference, scale = 1200 / w for w > 1200
coin_scale_back(img, v) == IF img.w > 1200 THEN (v * img.w) \div 1200 ELSE v

\* _detect_coin_reference; best: what _detect_coin_single_pass returned on
\* the work image, [found, x, y, r, score]
detect_coin_reference(img, best) ==
    IF best.found /\ best.score >= 400
    THEN LET r == coin_scale_back(img, best.r)
             diameter_px == 2 * r
             coin_diameter_mm == 25
             coin_diameter_cm == 250
             \* pixels_per_mm = diameter_px / 25, pixels_per_cm = that * 10
             pixels_per_cm == (diameter_px * 10000) \div coin_diameter_mm
         IN [detected |-> TRUE,
             pixels_per_cm |-> pixels_per_cm,
             coin_center |-> <<coin_scale_back(img, best.x),
                               coin_scale_back(img, best.y)>>,
             coin_radius |-> r,
             coin_diameter_px |-> diameter_px,
             coin_type |-> "peso_5",
             coin_name |-> "P5 Coin (25mm)",
             coin_diameter_cm |-> coin_diameter_cm,
             detection_score |-> best.score,
             confidence |-> Min(950, 500 + best.score \div 2),
             detection_method |-> "edge_ring"]
    ELSE [detected |-> FALSE, coin_type |-> NoneStr]

\* _detect_card_reference
detect_card_reference == [detected |-> FALSE]

\* ellipsoid weight in tenths of a gram: (4/3) pi (L/2)(W/2)(W/2 * 0.8) * 0.85
\* = 0.356 L W^2, clipped to [15, 60] g
estimated_weight(length, width) ==
    Clip(RoundDiv(((length * width * width) \div 1000) * 356, 100000), 150, 600)

\* kernel mass in thousandths of a gram: 0.1 + (L W / 35) * 0.6 in [0.1, 0.9]
kernel_mass(length, width) ==
    Clip(100 + RoundDiv(length * width * 6, 3500), 100, 900)

\* what _segment_fruit returned: found is "fruit_contour is not None",
\* points is len(fruit_contour), axes the two axes cv2.fitEllipse reports
Contour(points, axes) == [found |-> TRUE, points |-> points, axes |-> axes]

NoContour == [found |-> FALSE]

fits_ellipse(contour) == contour.found /\ contour.points >= 5

major_axis(contour) == Max(contour.axes[1], contour.axes[2])

minor_axis(contour) == Min(contour.axes[1], contour.axes[2])

\* _estimate_from_contour
estimate_from_contour(img, contour) ==
    LET base == [detected |-> FALSE,
                 warning |-> "No reference object detected. Using contour-based estimation."]
    IN IF fits_ellipse(contour)
       THEN LET major == major_axis(contour)
                minor == minor_axis(contour)
                diag == img.diagonal
                \* 0.2 < major / diagonal < 0.8
                framed == diag < 5 * major /\ 5 * major < 4 * diag
                \* 4.5 * (ratio / 0.4) = 11.25 * major / diagonal, in hundredths
                low == framed /\ 1125 * major < 350 * diag
                high == framed /\ 1125 * major > 550 * diag
                free == framed /\ ~low /\ ~high
                fixed_length == IF low THEN 350 ELSE IF high THEN 550 ELSE 450
                estimated_length ==
                    IF free THEN RoundDiv(1125 * major, diag) ELSE fixed_length
                \* estimated_length * (minor / major), from the unrounded length
                raw_width ==
                    IF major = 0 THEN (estimated_length * 7) \div 10
                    ELSE IF free THEN RoundDiv(1125 * minor, diag)
                    ELSE RoundDiv(fixed_length * minor, major)
                estimated_width == Clip(raw_width, 200, 400)
                \* major_axis / estimated_length
                pixels_per_cm ==
                    IF free THEN RoundDiv(100000 * diag, 1125)
                    ELSE RoundDiv(100000 * major, fixed_length)
            IN Update(base,
                 [detected |-> TRUE,
                  pixels_per_cm |-> pixels_per_cm,
                  fruit_contour |-> contour,
                  confidence |-> 400,
                  estimation_method |-> "statistical_prior",
                  length_cm |-> estimated_length,
                  width_cm |-> estimated_width,
                  estimated_weight_g |-> estimated_weight(estimated_length, estimated_width),
                  estimated_kernel_mass_g |-> kernel_mass(estimated_length, estimated_width)])
       ELSE base

\* variant: _measure_fruit without the two clips of lines 914-915
measure_fruit_unclipped(contour, pixels_per_cm) ==
    IF fits_ellipse(contour)
    THEN LET length_cm == RoundDiv(major_axis(contour) * 100000, pixels_per_cm)
             width_cm == RoundDiv(minor_axis(contour) * 100000, pixels_per_cm)
         IN [length_cm |-> length_cm,
             width_cm |-> width_cm,
             area_cm2 |-> RoundDiv(355 * length_cm * width_cm, 45200),
             estimated_weight_g |-> estimated_weight(length_cm, width_cm),
             estimated_kernel_mass_g |-> kernel_mass(length_cm, width_cm),
             fruit_contour |-> contour]
    ELSE EmptyDict

\* _measure_fruit
measure_fruit(contour, pixels_per_cm) ==
    IF fits_ellipse(contour)
    THEN LET length_cm == Clip(RoundDiv(major_axis(contour) * 100000, pixels_per_cm), 300, 800)
             width_cm == Clip(RoundDiv(minor_axis(contour) * 100000, pixels_per_cm), 150, 600)
         IN [length_cm |-> length_cm,
             width_cm |-> width_cm,
             \* pi (L/2)(W/2), pi taken as 355/113
             area_cm2 |-> RoundDiv(355 * length_cm * width_cm, 45200),
             estimated_weight_g |-> estimated_weight(length_cm, width_cm),
             estimated_kernel_mass_g |-> kernel_mass(length_cm, width_cm),
             fruit_contour |-> contour]
    ELSE EmptyDict

\* estimate_from_image of an image that loads; aruco, best and contour are
\* what _detect_aruco, _detect_coin_single_pass and _segment_fruit see in it
estimate_from_image(type, reference_method, img, aruco, best, contour) ==
    LET info == reference_info(type)
        initial == [success |-> FALSE,
                    method_used |-> NoneStr,
                    pixels_per_cm |-> None,
                    length_cm |-> None,
                    width_cm |-> None,
                    area_cm2 |-> None,
                    fruit_contour |-> NoContour,
                    reference_detected |-> FALSE,
                    confidence |-> 0]
        aruco_result == detect_aruco(info, aruco)
        coin_result == detect_coin_reference(img, best)
        card_result == detect_card_reference
        contour_result == estimate_from_contour(img, contour)
        Found(r, method) ==
            Put(Put(Update(initial, r), "method_used", method),
                "reference_detected", TRUE)
        Only(r, method) ==
            Put(Put(Update(initial, r), "method_used", method),
                "reference_detected", r.detected)
        Fallback ==
            Put(Update(initial, contour_result), "method_used", "contour_estimation")
        tried ==
            CASE reference_method = "auto" ->
                   IF aruco_result.detected THEN Found(aruco_result, "aruco")
                   ELSE IF coin_result.detected THEN Found(coin_result, "coin")
                   ELSE IF card_result.detected THEN Found(card_result, "card")
                   ELSE Fallback
              [] reference_method = "aruco" -> Only(aruco_result, "aruco")
              [] reference_method = "coin" -> Only(coin_result, "coin")
              [] reference_method = "card" -> Only(card_result, "card")
              [] OTHER -> Fallback
    IN IF Truthy(tried.pixels_per_cm)
       THEN Put(Update(tried, measure_fruit(contour, tried.pixels_per_cm)),
                "success", TRUE)
       ELSE tried

\* list.sort by descending score, as both coin searches sort their scored
\* circles: a stable sort, equal scores stay in the order they were appended
RECURSIVE insert_sorted(_, _)
insert_sorted(sorted, c) ==
    IF sorted = <<>> THEN <<c>>
    ELSE IF Head(sorted).score >= c.score
    THEN <<Head(sorted)>> \o insert_sorted(Tail(sorted), c)
    ELSE <<c>> \o sorted

RECURSIVE sort_by_score(_, _)
sort_by_score(scored, n) ==
    IF n = 0 THEN <<>>
    ELSE insert_sorted(sort_by_score(scored, n - 1), scored[n])

\* int(v / scale) of fast_coin_search, scale = 512 / max(h, w) above 512
fast_scale_back(img, v) ==
    IF Max(img.h, img.w) > 512 THEN (v * Max(img.h, img.w)) \div 512 ELSE v

\* the sanity test of a candidate against the detector's fruit size:
\* the fruit would be 2.5 to 9.0 cm long and 1.5 to 7.0 cm wide
fruit_size_plausible(fruit_bbox, ppcm) ==
    IF fruit_bbox # EmptyDict /\ "size" \in DOMAIN fruit_bbox
    THEN LET fruit_len == Max(fruit_bbox.size[1], fruit_bbox.size[2])
             fruit_wid == Min(fruit_bbox.size[1], fruit_bbox.size[2])
         IN ~ \/ fruit_len * 1000 > 9 * ppcm
              \/ fruit_len * 2000 < 5 * ppcm
              \/ fruit_wid * 1000 > 7 * ppcm
              \/ fruit_wid * 2000 < 3 * ppcm
    ELSE TRUE

\* the loop over the candidates, best score first
RECURSIVE first_coin(_, _, _, _, _)
first_coin(info, img, candidates, fruit_bbox, i) ==
    IF i > Len(candidates) \/ candidates[i].score < 550
    THEN [detected |-> FALSE]
    ELSE LET c == candidates[i]
             r_orig == fast_scale_back(img, c.r)
             coin_diameter_cm == Get(info, "diameter", 240)
             ppcm == RoundDiv(r_orig * 2 * 100000, coin_diameter_cm)
         IN IF ~fruit_size_plausible(fruit_bbox, ppcm)
            THEN first_coin(info, img, candidates, fruit_bbox, i + 1)
            ELSE [detected |-> TRUE,
                  coin_center |-> <<fast_scale_back(img, c.cx),
                                    fast_scale_back(img, c.cy)>>,
                  coin_radius |-> r_orig,
                  coin_diameter_px |-> r_orig * 2,
                  coin_diameter_cm |-> coin_diameter_cm,
                  pixels_per_cm |-> ppcm,
                  confidence |-> Min(900, c.score),
                  coin_name |-> Get(info, "name", "P5 Coin"),
                  method |-> "size_aware_circle"]

\* a circle whose edge ring continuity is below 0.15 gets no score
Unscored == -1

\* the image the fast search works on: downscaled to 512 on its longer side
small_image(img) ==
    IF Max(img.h, img.w) > 512
    THEN [h |-> (img.h * 512) \div Max(img.h, img.w),
          w |-> (img.w * 512) \div Max(img.h, img.w)]
    ELSE [h |-> img.h, w |-> img.w]

\* the bounds check of a circle on the small image, r = max(1, r)
out_of_bounds(small, c) ==
    LET r == Max(1, c.r)
    IN \/ c.cx - r < 2 \/ c.cy - r < 2
       \/ c.cx + r >= small.w - 2 \/ c.cy + r >= small.h - 2

\* fruit_rect[0] < cx < fruit_rect[2] and fruit_rect[1] < cy < fruit_rect[3]:
\* fruit_rect is the detector's box scaled to the small image and shrunk by
\* 15% of its width and height on each side
inside_fruit_rect(img, fruit_bbox, c) ==
    IF fruit_bbox # EmptyDict /\ "bbox" \in DOMAIN fruit_bbox
    THEN LET bx == fruit_bbox.bbox
             longer == Max(img.h, img.w)
             num == IF longer > 512 THEN 512 ELSE 1
             den == IF longer > 512 THEN longer ELSE 1
             margin_x == 15 * (bx[3] - bx[1])
             margin_y == 15 * (bx[4] - bx[2])
         IN /\ num * (100 * bx[1] + margin_x) < 100 * den * c.cx
            /\ 100 * den * c.cx < num * (100 * bx[3] - margin_x)
            /\ num * (100 * bx[2] + margin_y) < 100 * den * c.cy
            /\ 100 * den * c.cy < num * (100 * bx[4] - margin_y)
    ELSE FALSE

\* variant: circles centred inside the fruit stay candidates
RECURSIVE score_candidates_anywhere(_, _, _, _)
score_candidates_anywhere(img, circle_list, fruit_bbox, n) ==
    IF n > Len(circle_list) THEN <<>>
    ELSE LET c == circle_list[n]
             rest == score_candidates_anywhere(img, circle_list, fruit_bbox, n + 1)
         IN IF \/ out_of_bounds(small_image(img), c)
               \/ c.score = Unscored
            THEN rest
            ELSE <<c>> \o rest

\* "for circle in circle_list: ... candidates.append(...)", from circle n on
RECURSIVE score_candidates(_, _, _, _)
score_candidates(img, circle_list, fruit_bbox, n) ==
    IF n > Len(circle_list) THEN <<>>
    ELSE LET c == circle_list[n]
             rest == score_candidates(img, circle_list, fruit_bbox, n + 1)
         IN IF \/ out_of_bounds(small_image(img), c)
               \/ inside_fruit_rect(img, fruit_bbox, c)
               \/ c.score = Unscored
            THEN rest
            ELSE <<c>> \o rest

\* the candidates after candidates.sort(key=lambda x: x[0], reverse=True),
\* a stable sort; circles[0][:10] caps the circles at ten
fast_candidates(img, circles, fruit_bbox) ==
    LET circle_list == SubSeq(circles, 1, Min(10, Len(circles)))
        candidates == score_candidates(img, circle_list, fruit_bbox, 1)
    IN sort_by_score(candidates, Len(candidates))

\* fast_coin_search; circles: what HoughCircles returned on the small
\* image, each with the score its pixels earn
fast_coin_search(type, img, border_brightness, circles, fruit_bbox) ==
    IF border_brightness < 165 \/ circles = <<>>
    THEN [detected |-> FALSE]
    ELSE LET candidates == fast_candidates(img, circles, fruit_bbox)
         IN IF candidates = <<>>
            THEN [detected |-> FALSE]
            ELSE first_coin(reference_info(type), img, candidates,
                            fruit_bbox, 1)

\* ----------------------------------------------------------------------
\* Inputs of the estimator's calls
\* ----------------------------------------------------------------------
\* every key of REFERENCE_OBJECTS and one name that is not a key
ReferenceTypes == (DOMAIN REFERENCE_OBJECTS) \cup {"peso_50"}

ReferenceMethods == {"auto", "aruco", "coin", "card", "contour"}

\* 3:4 images with an integral diagonal; the widths above 1200 and the
\* sides above 512 scale by a ratio that binary floating point holds exactly
Images == {Image(384, 512, 640), Image(960, 1280, 1600), Image(1536, 2048, 2560)}

ArucoInputs ==
    {[available |-> FALSE, marker_px |-> 0],
     [available |-> TRUE, marker_px |-> 0],
     [available |-> TRUE, marker_px |-> 200]}

NoCircle == [found |-> FALSE, score |-> 0]

Circle(x, y, r, score) == [found |-> TRUE, x |-> x, y |-> y, r |-> r, score |-> score]

\* no circle, a circle below the 0.40 acceptance score, at it and above it
CoinPassInputs ==
    {NoCircle, Circle(120, 300, 48, 380), Circle(120, 300, 48, 400),
     Circle(120, 300, 48, 700), Circle(150, 240, 60, 960)}

\* no contour, a contour of 4 points, and ellipses from thin to round, from
\* a fifth of the smallest diagonal to most of the largest
ContourInputs ==
    {NoContour, Contour(4, <<300, 450>>),
     Contour(40, <<60, 120>>), Contour(40, <<70, 200>>),
     Contour(40, <<190, 200>>), Contour(40, <<300, 450>>),
     Contour(40, <<450, 135>>), Contour(40, <<420, 450>>),
     Contour(40, <<900, 1000>>), Contour(40, <<400, 1900>>)}

Candidate(score, cx, cy, r) == [score |-> score, cx |-> cx, cy |-> cy, r |-> r]

\* the circles HoughCircles returns to fast_coin_search on the small image,
\* in its order, each with the score its pixels earn: none, one below and
\* one at the acceptance score, lists best first, best last and tied, a
\* circle in the middle of the picture, one with a broken edge ring and one
\* over the left border
CandidateInputs ==
    {<<>>,
     <<Candidate(500, 100, 200, 40)>>,
     <<Candidate(550, 100, 200, 40)>>,
     <<Candidate(950, 100, 200, 48), Candidate(600, 300, 100, 30)>>,
     <<Candidate(800, 100, 200, 20), Candidate(700, 300, 100, 44),
       Candidate(400, 50, 50, 30)>>,
     <<Candidate(600, 300, 100, 30), Candidate(950, 100, 200, 48)>>,
     <<Candidate(700, 100, 200, 44), Candidate(700, 300, 100, 30)>>,
     <<Candidate(900, 280, 170, 30), Candidate(700, 100, 200, 44)>>,
     <<Candidate(Unscored, 100, 200, 40), Candidate(600, 300, 100, 30)>>,
     <<Candidate(900, 20, 200, 30)>>}

BorderInputs == {150, 165, 220}

\* the detector's fruit_info: None, without a size, and with sizes in pixels
FruitBoxInputs ==
    {EmptyDict,
     [bbox |-> <<200, 100, 400, 250>>, confidence |-> 900],
     [bbox |-> <<200, 100, 400, 250>>, size |-> <<200, 150>>, confidence |-> 900],
     [bbox |-> <<200, 100, 900, 600>>, size |-> <<700, 500>>, confidence |-> 600]}

\* scales in thousandths of a pixel per cm: 20, 38.4, 96 and 250 px/cm
ScaleInputs == {20000, 38400, 96000, 250000}

\* ----------------------------------------------------------------------
\* The estimator called on its own: one call on an estimator constructed
\* with any reference type
\* ----------------------------------------------------------------------
InitEstimator ==
    /\ pc = "idle"
    /\ GuardEntry
    /\ apc = "estimator"
    /\ entry = "analyze_image"
    /\ image = AnyImage
    /\ reference_type \in ReferenceTypes
    /\ est_ret = NoCall
    /\ skip_fruit_validation = FALSE
    /\ calls = {}
    /\ yolo_fruit_info = EmptyDict
    /\ coin_info = EmptyDict
    /\ dim_result = EmptyDict
    /\ segmentation_result = EmptyDict
    /\ result = EmptyDict
    /\ ServerIdle

EstimateFromImage ==
    /\ apc = "estimator"
    /\ \E m \in ReferenceMethods, img \in Images, aruco \in ArucoInputs,
          best \in CoinPassInputs, contour \in ContourInputs :
         est_ret' = [op |-> "estimate_from_image",
                     reference_method |-> m,
                     img |-> img,
                     aruco_detected |->
                         detect_aruco(reference_info(reference_type), aruco).detected,
                     coin_detected |-> detect_coin_reference(img, best).detected,
                     contour |-> contour,
                     out |-> estimate_from_image(reference_type, m, img, aruco,
                                                 best, contour)]
    /\ apc' = "estimator_returned"
    /\ UNCHANGED <<api_vars, guard_vars, entry, image, reference_type, analysis_vars>>

FastCoinSearch ==
    /\ apc = "estimator"
    /\ \E img \in Images, b \in BorderInputs, candidates \in CandidateInputs,
          fruit_bbox \in FruitBoxInputs :
         est_ret' = [op |-> "fast_coin_search",
                     img |-> img,
                     border_brightness |-> b,
                     circles |-> candidates,
                     fruit_bbox |-> fruit_bbox,
                     out |-> fast_coin_search(reference_type, img, b, candidates,
                                              fruit_bbox)]
    /\ apc' = "estimator_returned"
    /\ UNCHANGED <<api_vars, guard_vars, entry, image, reference_type, analysis_vars>>

\* _estimate_from_contour called by itself, as analyze_image calls it when
\* the detector and the fast search found no coin (predict.py:375)
EstimateFromContour ==
    /\ apc = "estimator"
    /\ \E img \in Images, contour \in ContourInputs :
         est_ret' = [op |-> "estimate_from_contour",
                     img |-> img,
                     contour |-> contour,
                     out |-> estimate_from_contour(img, contour)]
    /\ apc' = "estimator_returned"
    /\ UNCHANGED <<api_vars, guard_vars, entry, image, reference_type, analysis_vars>>

\* _measure_fruit called by itself with a scale found elsewhere, as
\* analyze_image calls it with the detector's or the fast search's
\* pixels_per_cm (predict.py:348, 371)
MeasureFruit ==
    /\ apc = "estimator"
    /\ \E contour \in ContourInputs, pixels_per_cm \in ScaleInputs :
         est_ret' = [op |-> "measure_fruit",
                     contour |-> contour,
                     pixels_per_cm |-> pixels_per_cm,
                     out |-> measure_fruit(contour, pixels_per_cm)]
    /\ apc' = "estimator_returned"
    /\ UNCHANGED <<api_vars, guard_vars, entry, image, reference_type, analysis_vars>>

NextEstimator ==
    \/ EstimateFromImage
    \/ FastCoinSearch
    \/ EstimateFromContour
    \/ MeasureFruit

SpecEstimator == InitEstimator /\ [][NextEstimator]_vars

\* ======================================================================
\* TalisayPredictor.analyze_image (src/ml/predict.py), on a predictor
\* constructed with the default reference_coin "peso_5".  The detector, the
\* segmenter, the validator, the colour classifier and the oil predictor
\* are components the method calls; what each returns is an input of the
\* step that calls it.  Which optional components exist (talisay_guard,
\* yolo_detector, segmenter) is read where the code first tests it.
\* ======================================================================
\* config.DIMENSION_RANGES: the clamp ranges of length and width
DIMENSION_RANGES ==
    [length |-> [min |-> 300, max |-> 800], width |-> [min |-> 150, max |-> 600]]

\* cv2.resize to at most 1280 px on the longest side
downscale(img) ==
    LET longest == Max(img.h, img.w)
    IN IF longest > 1280
       THEN Image((img.h * 1280) \div longest, (img.w * 1280) \div longest,
                  (img.diagonal * 1280) \div longest)
       ELSE img

\* what the image shows to the estimator's detectors
Scene(img, aruco, best, border, candidates, contour) ==
    [img |-> img, aruco |-> aruco, best |-> best, border |-> border,
     candidates |-> candidates, contour |-> contour]

NoMarker == [available |-> TRUE, marker_px |-> 0]

SceneInputs ==
    {\* a fruit on a dark background, no reference
     Scene(Image(960, 1280, 1600), NoMarker, NoCircle, 150, <<>>,
           Contour(40, <<300, 450>>)),
     \* a fruit beside a coin on a light surface
     Scene(Image(960, 1280, 1600), NoMarker, Circle(120, 300, 48, 700), 220,
           <<Candidate(950, 100, 200, 20)>>, Contour(40, <<190, 280>>)),
     \* nothing the segmentation can find, no reference
     Scene(Image(960, 1280, 1600), NoMarker, NoCircle, 220, <<>>, NoContour),
     \* a coin alone
     Scene(Image(384, 512, 640), NoMarker, Circle(150, 240, 60, 960), 220,
           <<Candidate(550, 150, 240, 40)>>, NoContour),
     \* a printed marker beside a fruit
     Scene(Image(960, 1280, 1600), [available |-> TRUE, marker_px |-> 200],
           NoCircle, 220, <<>>, Contour(40, <<420, 450>>)),
     \* a weak circle and a thin fruit
     Scene(Image(384, 512, 640), NoMarker, Circle(120, 300, 48, 380), 165,
           <<Candidate(500, 100, 200, 40)>>, Contour(40, <<70, 200>>)),
     \* a large photo, the fruit filling it, a coin beside it
     Scene(Image(1536, 2048, 2560), NoMarker, Circle(120, 300, 48, 400), 220,
           <<Candidate(950, 100, 200, 20), Candidate(600, 300, 100, 16)>>,
           Contour(40, <<900, 1000>>)),
     \* a contour of four points
     Scene(Image(960, 1280, 1600), NoMarker, NoCircle, 150, <<>>,
           Contour(4, <<300, 450>>))}

\* what yolo_detector.detect returned: a failure, nothing found, a fruit
\* alone, a coin and a fruit (the detector then measures the fruit with the
\* coin's scale), and a coin alone just above the detector's confidence
\* threshold of 0.35
YoloInputs ==
    {[success |-> FALSE],
     [success |-> TRUE, has_coin_reference |-> FALSE, fruit_info |-> EmptyDict,
      fruits_detected |-> 0, coins_detected |-> 0],
     [success |-> TRUE, has_coin_reference |-> FALSE,
      fruit_info |-> [detected |-> TRUE, bbox |-> <<500, 300, 900, 600>>,
                      size |-> <<400, 300>>, confidence |-> 900],
      fruits_detected |-> 1, coins_detected |-> 0],
     [success |-> TRUE, has_coin_reference |-> TRUE,
      coin_info |-> [detected |-> TRUE, pixels_per_cm |-> 40000,
                     coin_center |-> <<120, 300>>, coin_radius |-> 50,
                     coin_diameter_cm |-> 250,
                     coin_name |-> "P5 Coin (Silver, 25mm)",
                     confidence |-> 850],
      fruit_info |-> [detected |-> TRUE, bbox |-> <<500, 300, 900, 600>>,
                      size |-> <<400, 300>>, confidence |-> 900,
                      estimated_length_cm |-> 1000, estimated_width_cm |-> 750],
      fruits_detected |-> 1, coins_detected |-> 1],
     [success |-> TRUE, has_coin_reference |-> TRUE,
      coin_info |-> [detected |-> TRUE, pixels_per_cm |-> 80000,
                     coin_center |-> <<120, 300>>, coin_radius |-> 100,
                     coin_diameter_cm |-> 250,
                     coin_name |-> "P5 Coin (Silver, 25mm)",
                     confidence |-> 400],
      fruit_info |-> EmptyDict,
      fruits_detected |-> 0, coins_detected |-> 1]}

\* what segmenter.segment returned
SegmentationInputs ==
    {[success |-> TRUE, mask |-> TRUE, background_type |-> "light",
      confidence |-> 800, fruit_area_ratio |-> 250, coin_detected |-> FALSE],
     [success |-> FALSE]}

\* what fruit_validator.validate returned
ValidationInputs ==
    {[is_talisay |-> TRUE, result |-> "talisay", confidence |-> 850,
      message |-> "Talisay fruit detected"],
     [is_talisay |-> FALSE, result |-> "non_talisay", confidence |-> 700,
      message |-> "Not a Talisay fruit"],
     [is_talisay |-> FALSE, result |-> "coin_only", confidence |-> 900,
      message |-> "Only a coin was detected"]}

\* what _classify_color returned
ColorInputs ==
    {[predicted_color |-> "green", confidence |-> 900, maturity_stage |-> "Immature",
      probabilities |-> [green |-> 900, yellow |-> 70, brown |-> 30]],
     [predicted_color |-> "brown", confidence |-> 50, maturity_stage |-> "Fully Ripe",
      probabilities |-> [green |-> 330, yellow |-> 330, brown |-> 340]],
     [predicted_color |-> "yellow", confidence |-> 200,
      maturity_stage |-> "Mature (Optimal)",
      probabilities |-> [green |-> 300, yellow |-> 400, brown |-> 300],
      has_spots |-> TRUE, spot_coverage_percent |-> 12],
     [predicted_color |-> "yellow", confidence |-> 240,
      maturity_stage |-> "Mature (Optimal)",
      probabilities |-> [green |-> 100, yellow |-> 600, brown |-> 300]]}

\* the caller's known_dimensions: None, complete, and with a length only
KnownDimensionInputs ==
    {EmptyDict,
     [length_cm |-> 520, width_cm |-> 340, kernel_mass_g |-> 450],
     [length_cm |-> 1200]}

\* what oil_predictor.predict returned
OilInputs ==
    {[oil_yield_percent |-> 550, confidence |-> 800, yield_category |-> "high",
      interpretation |-> "High oil yield"]}

\* max(probs.values()) - min(probs.values()), 0 for an empty dict
probability_spread(probs) ==
    IF DOMAIN probs = {} THEN 0
    ELSE LET values == {probs[k] : k \in DOMAIN probs}
         IN (CHOOSE hi \in values : \A v \in values : v <= hi)
            - (CHOOSE lo \in values : \A v \in values : lo <= v)

\* _calculate_overall_confidence, in millionths before rounding
overall_confidence(res, segmentation_enabled) ==
    350 * Get(res, "color_confidence", 500)
    + 250 * Get(res, "dimensions_confidence", 400)
    + 150 * (IF segmentation_enabled
             THEN Get(Get(res, "segmentation", EmptyDict), "confidence", 500)
             ELSE 700)
    + 250 * Get(res, "oil_confidence", 500)

InitAnalyze ==
    /\ pc = "idle"
    /\ image = AnyImage
    /\ GuardEntry
    /\ CallerIdle("start")

\* variant: analyze_image goes on after a rejection
guard_stops_never(guard_result) == FALSE

\* the guard's rejection ends the analysis (line 291)
guard_stops(guard_result) == ~guard_result.accepted

\* result["key"] = val for several keys at once
Set(res, fields) == Update(res, fields)

\* return result
Finish(res) ==
    /\ result' = res
    /\ apc' = "returned"

\* the except clause: the error is recorded, the analysis is not complete
Raise(res, error) ==
    Finish(Set(res, [error |-> error, analysis_complete |-> FALSE]))

\* lines 245-284: the result skeleton, the image load, the call of the guard
AnalyzeStart ==
    /\ apc = "start"
    /\ \E loaded \in BOOLEAN, skip \in BOOLEAN, has_guard \in BOOLEAN :
         LET res == [is_talisay |-> FALSE,
                     analysis_complete |-> FALSE,
                     error |-> NoneStr,
                     pipeline_info |-> [reference_coin |-> reference_coin]]
         IN /\ skip_fruit_validation' = skip
            /\ IF ~loaded
               THEN /\ Finish(Set(res, [error |-> "Could not load image"]))
                    /\ UNCHANGED <<pc, calls>>
               ELSE IF ~skip /\ has_guard
               THEN /\ result' = res
                    /\ apc' = "guard"
                    /\ pc' = "blank"
                    /\ calls' = calls \cup {"talisay_guard"}
               ELSE /\ result' = res
                    /\ apc' = "yolo"
                    /\ UNCHANGED <<pc, calls>>
    /\ UNCHANGED <<layers, layerOrder, fruit_mask, mask_colour, green_sat, ret>>
    /\ UNCHANGED <<api_vars, entry, image, estimator_vars, yolo_fruit_info, coin_info, dim_result,
                   segmentation_result>>

\* lines 285-303: verify has returned guard_result.  On acceptance verify's
\* frame is gone and of guard_result only the verdict is kept (the score
\* copied into pipeline_info is read by nothing below).
GuardReturn ==
    /\ apc = "guard"
    /\ pc = "done"
    /\ LET guard_result == ret
       IN IF guard_stops(guard_result)
          THEN /\ Finish(Set(result,
                   [pipeline_info |->
                        Put(result.pipeline_info, "talisay_guard",
                            [used |-> TRUE, verdict |-> guard_result.verdict,
                             score |-> guard_result.score]),
                    is_talisay |-> FALSE,
                    analysis_complete |-> TRUE,
                    analysis_stopped_reason |-> guard_result.verdict,
                    user_message |-> guard_result.reason,
                    fruit_validation |->
                        [is_talisay |-> FALSE,
                         result |-> guard_result.verdict,
                         confidence |-> guard_result.score,
                         message |-> guard_result.reason,
                         guard_layers |-> Get(guard_result, "layers", EmptyDict)]]))
               /\ UNCHANGED guard_vars
          ELSE /\ result' = Put(result, "pipeline_info",
                                Put(result.pipeline_info, "talisay_guard",
                                    [used |-> TRUE,
                                     verdict |-> guard_result.verdict]))
               /\ apc' = "yolo"
               /\ pc' = "idle"
               /\ layers' = EmptyDict
               /\ layerOrder' = <<>>
               /\ fruit_mask' = NoMask
               /\ mask_colour' = NoColour
               /\ green_sat' = NoGreen
               /\ ret' = NoRet
    /\ UNCHANGED <<api_vars, entry, image, estimator_vars, skip_fruit_validation, calls, yolo_fruit_info,
                   coin_info, dim_result, segmentation_result>>

\* result["pipeline_info"]["yolo_detection"] of a successful detection
with_yolo_info(res, y) ==
    IF Get(y, "success", FALSE)
    THEN Put(res, "pipeline_info",
             Put(res.pipeline_info, "yolo_detection",
                 [used |-> TRUE, fruits_detected |-> y.fruits_detected,
                  coins_detected |-> y.coins_detected]))
    ELSE res

\* yolo_fruit_info after lines 312-317 (None is the empty dict)
fruit_info_of(y) ==
    IF Get(y, "success", FALSE) THEN Get(y, "fruit_info", EmptyDict) ELSE EmptyDict

\* yolo_coin_info after lines 312-317 (None is the empty dict)
coin_info_of(y) ==
    IF Get(y, "success", FALSE) /\ Get(y, "has_coin_reference", FALSE)
    THEN y.coin_info ELSE EmptyDict

\* lines 308-349: the detector found the coin
DimFromYoloCoin ==
    /\ apc = "yolo"
    /\ \E y \in YoloInputs, s \in SceneInputs :
         LET yolo_coin_info == coin_info_of(y)
             fruit == fruit_info_of(y)
             base == [reference_detected |-> TRUE,
                      pixels_per_cm |-> yolo_coin_info.pixels_per_cm,
                      coin_center |-> yolo_coin_info.coin_center,
                      coin_radius |-> yolo_coin_info.coin_radius,
                      coin_name |-> Get(yolo_coin_info, "coin_name", "P5 Coin"),
                      coin_diameter_cm |-> Get(yolo_coin_info, "coin_diameter_cm", 250),
                      confidence |-> yolo_coin_info.confidence,
                      method_used |-> "yolo_v8",
                      detection_method |-> "yolo_v8"]
             measured ==
                 fruit # EmptyDict /\ Truthy(Get(fruit, "estimated_length_cm", None))
         IN /\ yolo_coin_info # EmptyDict
            /\ yolo_fruit_info' = fruit
            /\ coin_info' = yolo_coin_info
            /\ dim_result' =
                 IF measured
                 THEN Set(base, [length_cm |-> fruit.estimated_length_cm,
                                 width_cm |-> fruit.estimated_width_cm])
                 ELSE Update(base, measure_fruit(s.contour, yolo_coin_info.pixels_per_cm))
            /\ est_ret' =
                 IF measured THEN est_ret
                 ELSE [op |-> "measure_fruit",
                       contour |-> s.contour,
                       pixels_per_cm |-> yolo_coin_info.pixels_per_cm,
                       out |-> measure_fruit(s.contour, yolo_coin_info.pixels_per_cm)]
            /\ calls' = calls \cup {"yolo_detector"}
                          \cup (IF measured THEN {} ELSE {"measure_fruit"})
            /\ result' = with_yolo_info(result, y)
    /\ apc' = "segment"
    /\ UNCHANGED <<api_vars, guard_vars, entry, image, reference_type, skip_fruit_validation,
                   segmentation_result>>

\* lines 308-327 and 350-376: a detector that found no coin
DimFromFastSearch ==
    /\ apc = "yolo"
    /\ \E y \in YoloInputs, s \in SceneInputs :
         LET fruit == fruit_info_of(y)
             img == downscale(s.img)
             fast_coin == fast_coin_search(reference_type, img, s.border,
                                           s.candidates, fruit)
         IN /\ coin_info_of(y) = EmptyDict
            /\ yolo_fruit_info' = fruit
            /\ IF Get(fast_coin, "detected", FALSE)
               THEN /\ coin_info' = fast_coin
                    /\ dim_result' =
                         Update([reference_detected |-> TRUE,
                                 pixels_per_cm |-> fast_coin.pixels_per_cm,
                                 coin_center |-> fast_coin.coin_center,
                                 coin_radius |-> fast_coin.coin_radius,
                                 coin_name |-> Get(fast_coin, "coin_name", "P5 Coin"),
                                 coin_diameter_cm |-> Get(fast_coin, "coin_diameter_cm", 240),
                                 confidence |-> fast_coin.confidence,
                                 method_used |-> "fast_hough_silver",
                                 detection_method |-> "fast_hough_silver"],
                                measure_fruit(s.contour, fast_coin.pixels_per_cm))
                    /\ est_ret' =
                         [op |-> "measure_fruit",
                          contour |-> s.contour,
                          pixels_per_cm |-> fast_coin.pixels_per_cm,
                          out |-> measure_fruit(s.contour, fast_coin.pixels_per_cm)]
                    /\ calls' = calls \cup {"yolo_detector", "fast_coin_search",
                                            "measure_fruit"}
               ELSE /\ coin_info' = EmptyDict
                    /\ dim_result' = Put(estimate_from_contour(img, s.contour),
                                         "method_used", "contour_estimation")
                    /\ est_ret' =
                         [op |-> "estimate_from_contour",
                          img |-> img,
                          contour |-> s.contour,
                          out |-> estimate_from_contour(img, s.contour)]
                    /\ calls' = calls \cup {"yolo_detector", "fast_coin_search",
                                            "estimate_from_contour"}
            /\ result' = with_yolo_info(result, y)
    /\ apc' = "segment"
    /\ UNCHANGED <<api_vars, guard_vars, entry, image, reference_type, skip_fruit_validation,
                   segmentation_result>>

\* lines 308-327 and 377-390: no detector, the estimator's own search
DimFromEstimate ==
    /\ apc = "yolo"
    /\ \E reference_method \in
              (IF entry = "analyze_with_reference" THEN {"coin"} ELSE ReferenceMethods),
          s \in SceneInputs :
         LET out == estimate_from_image(reference_type, reference_method,
                                        downscale(s.img), s.aruco, s.best,
                                        s.contour)
         IN /\ dim_result' = out
            /\ est_ret' =
                 [op |-> "estimate_from_image",
                  reference_method |-> reference_method,
                  img |-> downscale(s.img),
                  aruco_detected |->
                      detect_aruco(reference_info(reference_type), s.aruco).detected,
                  coin_detected |-> detect_coin_reference(downscale(s.img), s.best).detected,
                  contour |-> s.contour,
                  out |-> out]
            /\ coin_info' =
                 IF Get(out, "reference_detected", FALSE)
                 THEN [detected |-> TRUE,
                       coin_center |-> Get(out, "coin_center", <<>>),
                       coin_radius |-> Get(out, "coin_radius", None),
                       coin_name |-> Get(out, "coin_name", "P5 Coin"),
                       coin_diameter_cm |-> Get(out, "coin_diameter_cm", 250)]
                 ELSE EmptyDict
    /\ calls' = calls \cup {"estimate_from_image"}
    /\ apc' = "segment"
    /\ UNCHANGED <<api_vars, guard_vars, entry, image, reference_type, skip_fruit_validation,
                   yolo_fruit_info, segmentation_result, result>>

\* lines 392-415: self.enable_segmentation and self.segmenter
Segment ==
    /\ apc = "segment"
    /\ \/ /\ UNCHANGED <<segmentation_result, result, calls>>
       \/ \E s \in SegmentationInputs :
            /\ segmentation_result' = s
            /\ calls' = calls \cup {"segmenter"}
            /\ result' = Put(result, "segmentation",
                             [success |-> Get(s, "success", FALSE),
                              background_type |-> Get(s, "background_type", NoneStr),
                              confidence |-> Get(s, "confidence", 0),
                              fruit_area_ratio |-> Get(s, "fruit_area_ratio", 0),
                              coin_excluded |-> Get(s, "coin_detected", FALSE)])
    /\ apc' = "validate"
    /\ UNCHANGED <<api_vars, guard_vars, entry, image, estimator_vars, skip_fruit_validation,
                   yolo_fruit_info, coin_info, dim_result>>

\* lines 422-425
yolo_confirmed_fruit(fruit) ==
    fruit # EmptyDict /\ Get(fruit, "confidence", 0) >= 800

\* lines 417-547; self.fruit_validator is always constructed
Validate ==
    /\ apc = "validate"
    /\ IF ~skip_fruit_validation
       THEN \E v \in ValidationInputs :
              /\ calls' = calls \cup {"fruit_validator"}
              /\ IF ~v.is_talisay
                 THEN Finish(Set(result,
                        [fruit_validation |->
                             [is_talisay |-> FALSE, result |-> v.result,
                              confidence |-> v.confidence, message |-> v.message],
                         is_talisay |-> FALSE,
                         analysis_complete |-> TRUE,
                         analysis_stopped_reason |-> "not_talisay_fruit"]
                        @@ (IF v.result = "coin_only"
                               /\ ~yolo_confirmed_fruit(yolo_fruit_info)
                            THEN [coin_detected |-> TRUE] ELSE EmptyDict)))
                 ELSE /\ result' = Set(result,
                           [is_talisay |-> TRUE,
                            fruit_validation |->
                                IF yolo_confirmed_fruit(yolo_fruit_info)
                                THEN [skipped |-> FALSE,
                                      reason |-> "yolo_confirmed_with_full_validation",
                                      yolo_confidence |-> Get(yolo_fruit_info, "confidence", 0)]
                                ELSE [is_talisay |-> v.is_talisay, result |-> v.result,
                                      confidence |-> v.confidence, message |-> v.message]])
                      /\ apc' = "color"
       ELSE /\ result' = Set(result,
                 [is_talisay |-> TRUE,
                  fruit_validation |->
                      IF yolo_confirmed_fruit(yolo_fruit_info)
                      THEN [skipped |-> TRUE, reason |-> "yolo_confirmed",
                            yolo_confidence |-> Get(yolo_fruit_info, "confidence", 0)]
                      ELSE [skipped |-> TRUE]])
            /\ apc' = "color"
            /\ UNCHANGED calls
    /\ UNCHANGED <<api_vars, guard_vars, entry, image, estimator_vars, skip_fruit_validation,
                   yolo_fruit_info, coin_info, dim_result, segmentation_result>>

\* lines 549-601
ClassifyColor ==
    /\ apc = "color"
    /\ \E color_result \in ColorInputs :
         LET res == Set(result,
                      [color |-> color_result.predicted_color,
                       color_confidence |-> color_result.confidence,
                       maturity_stage |-> color_result.maturity_stage,
                       color_probabilities |-> color_result.probabilities,
                       color_method_used |-> Get(color_result, "method", "hsv_based")])
             stopped(reason) ==
                 Finish(Set(res, [is_talisay |-> FALSE,
                                  analysis_complete |-> TRUE,
                                  analysis_stopped_reason |-> reason]))
         IN IF color_result.confidence < 100
            THEN stopped("extremely_low_confidence")
            ELSE IF /\ color_result.confidence < 250
                    /\ probability_spread(Get(color_result, "probabilities", EmptyDict)) < 200
            THEN stopped("no_confident_color")
            ELSE /\ result' =
                      IF "has_spots" \in DOMAIN color_result
                      THEN Set(res, [has_spots |-> color_result.has_spots,
                                     spot_coverage_percent |->
                                         Get(color_result, "spot_coverage_percent", 0)])
                      ELSE res
                 /\ apc' = "dimensions"
    /\ calls' = calls \cup {"color_classifier"}
    /\ UNCHANGED <<api_vars, guard_vars, entry, image, estimator_vars, skip_fruit_validation,
                   yolo_fruit_info, coin_info, dim_result, segmentation_result>>

\* lines 615-620: max(range.min, min(range.max, raw))
clamp_dimension(range, raw) == Max(range.min, Min(range.max, raw))

\* variant: no boost of the confidence when a coin is detected
coin_confidence_plain(d) == Get(d, "confidence", 700)

\* line 650: min(0.95, dim_result.get("confidence", 0.7) + 0.15)
coin_confidence(d) == Min(950, Get(d, "confidence", 700) + 150)

\* lines 604-659
Dimensions ==
    /\ apc = "dimensions"
    /\ \E known_dimensions \in KnownDimensionInputs :
         IF known_dimensions # EmptyDict
         THEN /\ result' = Set(result,
                   [dimensions |-> known_dimensions,
                    dimensions_source |-> "user_provided",
                    dimensions_confidence |-> 1000,
                    reference_detected |-> TRUE,
                    measurement_mode |-> "manual"])
              /\ apc' = "oil"
         ELSE LET raw_length == Get(dim_result, "length_cm", 500)
                  raw_width == Get(dim_result, "width_cm", 350)
              IN IF raw_length = None \/ raw_width = None
                 \* min(float, None) raises TypeError
                 THEN Raise(result, "TypeError")
                 ELSE LET clamped_length ==
                              clamp_dimension(DIMENSION_RANGES.length, raw_length)
                          clamped_width ==
                              clamp_dimension(DIMENSION_RANGES.width, raw_width)
                          dimension_clamped ==
                              clamped_length # raw_length \/ clamped_width # raw_width
                          coin == coin_info # EmptyDict /\ Get(coin_info, "detected", FALSE)
                      IN /\ result' = Set(result,
                              [dimensions |->
                                   [length_cm |-> clamped_length,
                                    width_cm |-> clamped_width,
                                    kernel_mass_g |->
                                        Get(dim_result, "estimated_kernel_mass_g", 400),
                                    whole_fruit_weight_g |->
                                        Get(dim_result, "estimated_weight_g", 350)],
                               dimensions_source |-> Get(dim_result, "method_used", "estimated"),
                               dimensions_confidence |->
                                   IF coin
                                   THEN coin_confidence(dim_result)
                                   ELSE Get(dim_result, "confidence", 400),
                               reference_detected |->
                                   Get(dim_result, "reference_detected", FALSE),
                               measurement_mode |->
                                   IF coin THEN "coin_reference" ELSE "smart_estimation",
                               coin_info |-> IF coin THEN coin_info
                                             ELSE [detected |-> FALSE]]
                              @@ (IF dimension_clamped
                                  THEN [dimension_warning |-> TRUE] ELSE EmptyDict)
                              @@ (IF coin THEN EmptyDict
                                  ELSE [measurement_tip |-> TRUE]))
                         /\ apc' = "oil"
    /\ UNCHANGED <<api_vars, guard_vars, entry, image, estimator_vars, skip_fruit_validation, calls,
                   yolo_fruit_info, coin_info, dim_result, segmentation_result>>

\* lines 661-683
PredictOil ==
    /\ apc = "oil"
    /\ \E oil_result \in OilInputs :
         LET oil_input ==
                 [color |-> result.color,
                  length_cm |-> Get(result.dimensions, "length_cm", 500),
                  width_cm |-> Get(result.dimensions, "width_cm", 350),
                  kernel_mass_g |-> Get(result.dimensions, "kernel_mass_g", 400),
                  whole_fruit_weight_g |->
                      Get(result.dimensions, "whole_fruit_weight_g", 350)]
                 @@ (IF "spot_coverage_percent" \in DOMAIN result
                     THEN [spot_coverage_percent |-> result.spot_coverage_percent]
                     ELSE EmptyDict)
             \* oil_input is kept beside the result to show what predict was given
             res == Set(result,
                      [oil_input |-> oil_input,
                       oil_yield_percent |-> oil_result.oil_yield_percent,
                       oil_confidence |-> oil_result.confidence,
                       yield_category |-> oil_result.yield_category,
                       interpretation |-> oil_result.interpretation])
         IN \E overall \in Round3(overall_confidence(res,
                                      "segmentation" \in DOMAIN result)) :
              Finish(Set(res, [overall_confidence |-> overall,
                               analysis_complete |-> TRUE]))
    /\ calls' = calls \cup {"oil_predictor"}
    /\ UNCHANGED <<api_vars, guard_vars, entry, image, estimator_vars, skip_fruit_validation,
                   yolo_fruit_info, coin_info, dim_result, segmentation_result>>

NextAnalyze ==
    \/ AnalyzeStart
    \/ BlankLayer
    \/ PersonLayer
    \/ MaskGate
    \/ CapsicumLayer
    \/ NonTalisayLayer
    \/ ColourLayer
    \/ ShapeLayer
    \/ TextureLayer
    \/ CompositeDecision
    \/ GuardReturn
    \/ DimFromYoloCoin
    \/ DimFromFastSearch
    \/ DimFromEstimate
    \/ Segment
    \/ Validate
    \/ ClassifyColor
    \/ Dimensions
    \/ PredictOil

SpecAnalyze == InitAnalyze /\ [][NextAnalyze]_vars

\* ======================================================================
\* Several calls on one TalisayPredictor, one after the other.  What lasts
\* from one call to the next is the predictor and its components: here the
\* estimator's reference_type, from which reference_info is looked up.
\* ======================================================================
\* the reference types analyze_with_reference is called with
SessionReferences == {"peso_5", "peso_20"}

\* analyze_with_reference, lines 958-963: the estimator's reference_type and
\* reference_info are overwritten; line 966 then calls analyze_image with
\* reference_method "coin", which AnalyzeStart begins
AnalyzeWithReference ==
    /\ apc = "start"
    /\ entry = "analyze_image"
    /\ entry' = "analyze_with_reference"
    /\ reference_type' \in SessionReferences
    /\ UNCHANGED <<api_vars, guard_vars, apc, image, est_ret, analysis_vars>>

\* the call has returned and the next one comes in: every local is new,
\* the predictor and its estimator are the same objects
NextCall ==
    /\ apc = "returned"
    /\ apc' = "start"
    /\ entry' = "analyze_image"
    /\ pc' = "idle"
    /\ layers' = EmptyDict
    /\ layerOrder' = <<>>
    /\ fruit_mask' = NoMask
    /\ mask_colour' = NoColour
    /\ green_sat' = NoGreen
    /\ ret' = NoRet
    /\ est_ret' = NoCall
    /\ skip_fruit_validation' = FALSE
    /\ calls' = {}
    /\ yolo_fruit_info' = EmptyDict
    /\ coin_info' = EmptyDict
    /\ dim_result' = EmptyDict
    /\ segmentation_result' = EmptyDict
    /\ result' = EmptyDict
    /\ UNCHANGED <<api_vars, image, reference_type>>

NextSession ==
    \/ NextAnalyze
    \/ AnalyzeWithReference
    \/ NextCall

SpecSession == InitAnalyze /\ [][NextSession]_vars

\* ======================================================================
\* Properties of TalisayGuard.verify
\* ======================================================================
\* verify has returned from its composite stage
Decided == ret.returned /\ "talisay_texture" \in DOMAIN ret.layers

\* number of the colour, shape and texture layers whose record says passes
PassedOf(r) ==
    Cardinality({n \in {"talisay_colour", "talisay_shape", "talisay_texture"} :
                    r.layers[n].passes})

\* 0.45*colour + 0.30*shape + 0.25*texture of the returned scores (millionths)
CompositeOf(r) ==
      450 * r.layers["talisay_colour"].score
    + 300 * r.layers["talisay_shape"].score
    + 250 * r.layers["talisay_texture"].score

GateOrder ==
    <<"blank", "person", "capsicum", "non_talisay_colour", "talisay_colour",
      "talisay_shape", "talisay_texture">>

\* the layers evaluated when verify returns verdict v
LayersAt(v, r) ==
    CASE v = "reject_blank" -> 1
      [] v = "reject_person" -> 2
      [] v = "reject_generic" -> 2
      [] v = "reject_capsicum" -> 3
      [] v = "reject_non_talisay_fruit" -> 4
      [] v = "reject_wrong_shape" /\ "talisay_texture" \notin DOMAIN r.layers -> 6
      [] OTHER -> 7

C2_FixedOrder ==
    /\ Len(layerOrder) <= Len(GateOrder)
    /\ layerOrder = SubSeq(GateOrder, 1, Len(layerOrder))
    /\ DOMAIN layers = {layerOrder[i] : i \in 1..Len(layerOrder)}
    /\ ret.returned =>
         /\ ret.layers = layers
         /\ Len(layerOrder) = LayersAt(ret.verdict, ret)
         \* the first gate that fires decides
         /\ (ret.verdict = "reject_blank") = layers["blank"].is_blank
         /\ Len(layerOrder) >= 2 =>
              (ret.verdict = "reject_person") = layers["person"].is_person
         /\ (fruit_mask.built /\ fruit_mask.area < 500) =>
              ret.verdict = "reject_generic"
         /\ ret.verdict = "reject_generic" =>
              (fruit_mask.built /\ fruit_mask.area < 500)
         /\ Len(layerOrder) >= 3 =>
              (ret.verdict = "reject_capsicum") = layers["capsicum"].is_capsicum
         /\ Len(layerOrder) >= 4 =>
              (ret.verdict = "reject_non_talisay_fruit")
                 = layers["non_talisay_colour"].is_non_talisay
         /\ Len(layerOrder) = 6 => ret.verdict = "reject_wrong_shape"

\* the round-object gate returned: colour and shape evaluated, texture not
C2_Witness ==
    /\ ret.returned
    /\ ret.verdict = "reject_wrong_shape"
    /\ layerOrder = SubSeq(GateOrder, 1, 6)

\* C3 as stated: with 30% skin, 10% green coverage and a green median
\* saturation above 140 the image is rejected whatever the layers score.
C3_AsStated ==
    (/\ ret.returned
     /\ "person" \in DOMAIN ret.layers
     /\ Get(ret.layers["person"], "skin_coverage", 0) = 300
     /\ ret.layers["person"].strong_rescue_coverage = 100
     /\ green_sat.median > 140)
    => ~ret.accepted

\* C3 (amended): with 30% skin, MORE than 10% green coverage, more than 100
\* green pixels and a green median saturation above 140, the image is
\* rejected unless all three of the colour, shape and texture layers pass.
C3_VegetationVeto ==
    (/\ ret.returned
     /\ "person" \in DOMAIN ret.layers
     /\ Get(ret.layers["person"], "skin_coverage", 0) = 300
     /\ ret.layers["person"].strong_rescue_coverage > 100
     /\ green_sat.count > 100
     /\ green_sat.median > 140)
    => (ret.accepted => (Decided /\ PassedOf(ret) = 3))

\* the veto alone turned an acceptance (two layers, composite >= 0.55) down
C3_Witness ==
    /\ Decided
    /\ ret.layers["person"].skin_coverage = 300
    /\ ret.layers["person"].strong_rescue_coverage > 100
    /\ green_sat.count > 100
    /\ green_sat.median > 140
    /\ PassedOf(ret) = 2
    /\ CompositeOf(ret) >= 550000
    /\ ~ret.accepted

\* the person layer ran on an image with skin above 25% that the face rule
\* did not reject
SkinCase ==
    /\ "person" \in DOMAIN layers
    /\ Get(layers["person"], "reason", "") # "face_detected"
    /\ Get(layers["person"], "skin_coverage", 0) > 250

\* C4 as stated: such an image is let through exactly when green/yellow
\* coverage is at least 8%, or brown non-skin coverage alone is at least 20%
\* while skin is below 45%.
C4_AsStated ==
    SkinCase =>
        LET p == layers["person"]
            brown_alone == p.talisay_coverage - p.strong_rescue_coverage
        IN ~p.is_person <=>
              \/ p.strong_rescue_coverage >= 80
              \/ (brown_alone >= 200 /\ p.skin_coverage < 450)

\* C4 (amended): such an image is let through exactly when green/yellow
\* coverage is at least 8%, or the coverage of green, yellow and non-skin
\* brown pixels together is at least 20% while skin is below 45%; otherwise
\* the verdict is REJECT_PERSON.  30% skin with 10% green is let through.
C4_PersonRescue ==
    SkinCase =>
        LET p == layers["person"]
        IN /\ ~p.is_person <=>
                \/ p.strong_rescue_coverage >= 80
                \/ (p.talisay_coverage >= 200 /\ p.skin_coverage < 450)
           /\ (p.is_person /\ ret.returned) => ret.verdict = "reject_person"
           /\ (p.skin_coverage = 300 /\ p.strong_rescue_coverage = 100)
                 => ~p.is_person

\* rescued by green and brown together, neither enough on its own
C4_Witness ==
    /\ SkinCase
    /\ ~layers["person"].is_person
    /\ layers["person"].strong_rescue_coverage < 80
    /\ layers["person"].talisay_coverage - layers["person"].strong_rescue_coverage < 200

\* verify returned on a mask that is a perfect circle under 12% of the image
SmallCircle ==
    /\ ret.returned
    /\ fruit_mask.built
    /\ fruit_mask.aspect = 1000
    /\ fruit_mask.circularity = 1000
    /\ fruit_mask.coverage < 120

\* C5 as stated: such a region is always rejected as REJECT_WRONG_SHAPE.
C5_AsStated == SmallCircle => ret.verdict = "reject_wrong_shape"

\* C5 (amended): such a region is never accepted; the verdict is
\* REJECT_WRONG_SHAPE whenever verify reaches the shape layer, and otherwise
\* that of the earlier gate that fired (mask size, capsicum, non-Talisay).
C5_SmallCircleRejected ==
    SmallCircle =>
        /\ ~ret.accepted
        /\ ret.verdict \in {"reject_generic", "reject_capsicum",
                            "reject_non_talisay_fruit", "reject_wrong_shape"}
        /\ "talisay_shape" \in DOMAIN ret.layers =>
              /\ ret.verdict = "reject_wrong_shape"
              /\ "talisay_texture" \notin DOMAIN ret.layers

C5_Witness == SmallCircle /\ ret.verdict = "reject_wrong_shape"

\* C6: a rejection of the composite stage is REJECT_WRONG_COLOUR if the
\* colour layer did not pass, else REJECT_WRONG_SHAPE if the shape layer did
\* not pass, else REJECT_LOW_CONFIDENCE, whatever caused the rejection.
C6_RejectionKind ==
    (Decided /\ ~ret.accepted) =>
        ret.verdict =
            IF ~ret.layers["talisay_colour"].passes THEN "reject_wrong_colour"
            ELSE IF ~ret.layers["talisay_shape"].passes THEN "reject_wrong_shape"
            ELSE "reject_low_confidence"

\* colour and shape passed, two layers and the composite sufficed, and the
\* skin-sensitivity veto rejected: reported as low confidence
C6_Witness ==
    /\ Decided
    /\ ~ret.accepted
    /\ ret.layers["talisay_colour"].passes
    /\ ret.layers["talisay_shape"].passes
    /\ CompositeOf(ret) >= 550000
    /\ ret.verdict = "reject_low_confidence"

\* C7: accepted is True exactly when the verdict is ACCEPT, a rejection
\* carries a rejection kind of the enumeration and a non-empty reason, and
\* the score lies in [0, 1].
C7_WellFormed ==
    ret.returned =>
        /\ ret.accepted \in BOOLEAN
        /\ ret.verdict \in GuardVerdict
        /\ ret.accepted <=> ret.verdict = "accept"
        /\ ~ret.accepted => (ret.verdict \in REJECT_KINDS /\ ret.reason # "")
        /\ 0 <= ret.score /\ ret.score <= 1000

C7_Witness == ret.returned /\ ret.accepted /\ ret.score > 900

\* ======================================================================
\* Properties of TalisayPredictor.analyze_image
\* ======================================================================
\* result["pipeline_info"]["talisay_guard"], empty while the guard has not
\* returned to analyze_image
GuardInfo ==
    Get(Get(result, "pipeline_info", EmptyDict), "talisay_guard", EmptyDict)

GuardAccepted == GuardInfo # EmptyDict /\ GuardInfo.verdict = "accept"

GuardRejected == GuardInfo # EmptyDict /\ GuardInfo.verdict # "accept"

DownstreamKeys == {"color", "dimensions", "oil_yield_percent"}

Downstream == DownstreamKeys \subseteq DOMAIN result

Returned == apc = "returned"

CoinReported ==
    \/ est_ret.op = "fast_coin_search" /\ est_ret.out.detected
    \/ /\ est_ret.op = "estimate_from_image"
       /\ est_ret.out.method_used = "coin"
       /\ est_ret.out.reference_detected

\* |pixels_per_cm - D / C| <= 5% of D / C, D in pixels, C in hundredths of a cm
Within5Percent(pixels_per_cm, D, C) ==
    Abs(pixels_per_cm * C - D * 100000) * 20 <= D * 100000

\* C9 as stated: for every coin type the estimator is configured with, a
\* reported coin's pixels_per_cm is within 5% of the reported pixel
\* diameter over that coin's physical diameter.
C9_AsStated ==
    (reference_type \in CoinTypes /\ CoinReported) =>
        Within5Percent(est_ret.out.pixels_per_cm, est_ret.out.coin_diameter_px,
                       REFERENCE_OBJECTS[reference_type].diameter)

\* estimate_from_image looked for a coin and none was found
NoCoinFound ==
    /\ est_ret.op = "estimate_from_image"
    /\ ~est_ret.coin_detected
    /\ \/ est_ret.reference_method = "coin"
       \/ est_ret.reference_method = "auto" /\ ~est_ret.aruco_detected

\* C10 as stated: when estimate_from_image, asked with 'auto' or 'coin',
\* finds no coin, its result is the contour-based estimate with
\* confidence 0.40.
C10_AsStated ==
    NoCoinFound =>
        /\ est_ret.out.method_used = "contour_estimation"
        /\ est_ret.out.confidence = 400

\* ----------------------------------------------------------------------
\* The clamps of the reported measurement
\* ----------------------------------------------------------------------
\* a call of the estimator has reported a length and a width
MeasurementReported ==
    /\ est_ret.op \in {"estimate_from_image", "estimate_from_contour", "measure_fruit"}
    /\ Get(est_ret.out, "length_cm", None) # None
    /\ Get(est_ret.out, "width_cm", None) # None

\* the scale the reported measurement was converted with
ScaleOf(r) == IF r.op = "measure_fruit" THEN r.pixels_per_cm ELSE r.out.pixels_per_cm

\* 0.2 < major / diagonal < 0.8, the framing test of _estimate_from_contour
Framed(r) ==
    /\ r.img.diagonal < 5 * major_axis(r.contour)
    /\ 5 * major_axis(r.contour) < 4 * r.img.diagonal

\* the length before any clip: the ellipse's major axis over the scale, and
\* in _estimate_from_contour the framing estimate 4.5 * (ratio / 0.4), or
\* the fixed 4.5 cm
RawLength(r) ==
    IF r.op = "estimate_from_contour"
    THEN IF Framed(r)
         THEN RoundDiv(1125 * major_axis(r.contour), r.img.diagonal)
         ELSE 450
    ELSE RoundDiv(major_axis(r.contour) * 100000, ScaleOf(r))

\* the width before any clip: the minor axis over the scale, and in
\* _estimate_from_contour the estimated length times minor / major
RawWidth(r) ==
    IF r.op = "estimate_from_contour"
    THEN IF Framed(r) /\ r.out.length_cm = RawLength(r)
         THEN RoundDiv(1125 * minor_axis(r.contour), r.img.diagonal)
         ELSE RoundDiv(r.out.length_cm * minor_axis(r.contour), major_axis(r.contour))
    ELSE RoundDiv(minor_axis(r.contour) * 100000, ScaleOf(r))

WeightInRange(out) ==
    /\ 150 <= out.estimated_weight_g /\ out.estimated_weight_g <= 600
    /\ 100 <= out.estimated_kernel_mass_g /\ out.estimated_kernel_mass_g <= 900

\* C11 as stated: on every measurement path the reported length is the raw
\* length clamped to [3.0, 8.0], the width the raw width clamped to
\* [1.5, 6.0], the weight lies in [15, 60] g and the kernel mass in
\* [0.1, 0.9] g.
C11_AsStated ==
    MeasurementReported =>
        /\ est_ret.out.length_cm = Clip(RawLength(est_ret), 300, 800)
        /\ est_ret.out.width_cm = Clip(RawWidth(est_ret), 150, 600)
        /\ WeightInRange(est_ret.out)

\* C11: _measure_fruit, and estimate_from_image which ends with it on every
\* path that measures, report the major axis over the scale clamped to
\* [3.0, 8.0] cm and the minor axis over the scale clamped to [1.5, 6.0] cm.
\* _estimate_from_contour called by itself clamps its framing estimate to
\* [3.5, 5.5] cm (4.5 cm outside the framing window) and its width to
\* [2.0, 4.0] cm.  On every path the weight lies in [15, 60] g and the
\* kernel mass in [0.1, 0.9] g.
C11_Clamps ==
    MeasurementReported =>
        /\ est_ret.op # "estimate_from_contour" =>
              /\ est_ret.out.length_cm = Clip(RawLength(est_ret), 300, 800)
              /\ est_ret.out.width_cm = Clip(RawWidth(est_ret), 150, 600)
        /\ est_ret.op = "estimate_from_contour" =>
              /\ est_ret.out.length_cm = Clip(RawLength(est_ret), 350, 550)
              /\ est_ret.out.width_cm = Clip(RawWidth(est_ret), 200, 400)
        /\ WeightInRange(est_ret.out)

\* a measurement through a given scale whose raw length is above 8 cm,
\* reported at the boundary, with a width inside its range
C11_Witness ==
    /\ MeasurementReported
    /\ est_ret.op = "measure_fruit"
    /\ RawLength(est_ret) > 800 /\ est_ret.out.length_cm = 800
    /\ 150 < RawWidth(est_ret) /\ RawWidth(est_ret) < 600
    /\ est_ret.out.width_cm = RawWidth(est_ret)

\* ----------------------------------------------------------------------
\* The contour-only estimate of estimate_from_image
\* ----------------------------------------------------------------------
\* estimate_from_image found no reference object and estimated from a
\* contour that an ellipse was fitted to
ContourOnly ==
    /\ est_ret.op = "estimate_from_image"
    /\ est_ret.out.method_used = "contour_estimation"
    /\ ~est_ret.out.reference_detected
    /\ fits_ellipse(est_ret.contour)

\* C12 as stated: the contour-only result of estimate_from_image has its
\* length within [3.5, 5.5] cm, its width within [2.0, 4.0] cm and
\* confidence 0.40.
C12_AsStated ==
    ContourOnly =>
        /\ 350 <= est_ret.out.length_cm /\ est_ret.out.length_cm <= 550
        /\ 200 <= est_ret.out.width_cm /\ est_ret.out.width_cm <= 400
        /\ est_ret.out.confidence = 400

\* ======================================================================
\* Properties of the dimension step of analyze_image
\* ======================================================================
\* the estimator was called on an image whose fruit contour is missing or
\* has fewer than 5 points
NoContourFit ==
    /\ est_ret.op \in {"estimate_from_image", "estimate_from_contour", "measure_fruit"}
    /\ ~fits_ellipse(est_ret.contour)

\* C13 as stated: when no fruit contour can be fit, the estimator's result
\* holds no numeric length or width, and analyze_image, whatever the
\* detector and the reference_method, returns a complete analysis with no
\* error.
C13_AsStated ==
    NoContourFit =>
        /\ Get(est_ret.out, "length_cm", None) = None
        /\ Get(est_ret.out, "width_cm", None) = None
        /\ Returned => result.analysis_complete /\ result.error = NoneStr

\* the record analyze_image handed to oil_predictor.predict
OilInputGiven == "oil_input" \in DOMAIN result

InRange(range, v) == range.min <= v /\ v <= range.max

\* C14 as stated: every record handed to the oil-yield predictor has its
\* length and width inside the configured dimension ranges, caller-supplied
\* known_dimensions included.
C14_AsStated ==
    OilInputGiven =>
        /\ InRange(DIMENSION_RANGES.length, result.oil_input.length_cm)
        /\ InRange(DIMENSION_RANGES.width, result.oil_input.width_cm)

\* ======================================================================
\* Properties of a sequence of calls on one predictor
\* ======================================================================
\* the fast search found the coin this call measures with
FastSearchMeasured ==
    /\ dim_result # EmptyDict
    /\ Get(dim_result, "method_used", NoneStr) = "fast_hough_silver"

\* C15 as stated: the result of analyze_image does not depend on the calls
\* made before it on the same predictor.  Whatever came before, the scale
\* the fast search reports is the coin's pixel diameter over the diameter
\* of the coin the predictor was constructed with, as it is on a new
\* predictor.
C15_AsStated ==
    (entry = "analyze_image" /\ FastSearchMeasured) =>
         /\ dim_result.coin_diameter_cm = REFERENCE_OBJECTS[reference_coin].diameter
         /\ dim_result.pixels_per_cm =
              RoundDiv(dim_result.coin_radius * 2 * 100000,
                       REFERENCE_OBJECTS[reference_coin].diameter)

\* ======================================================================
\* Properties of the reported dimensions
\* ======================================================================
\* analyze_image has returned a complete analysis whose dimensions it took
\* from the image, and a reference coin was detected in that image
CoinAnalysisComplete ==
    /\ Returned
    /\ result.analysis_complete
    /\ "dimensions" \in DOMAIN result
    /\ result.dimensions_source # "user_provided"
    /\ coin_info # EmptyDict /\ Get(coin_info, "detected", FALSE)

\* C16 as stated: a complete analysis in which a reference coin was
\* detected reports dimensions_source "coin_reference" and a dimensions
\* confidence of at least 0.70.
C16_AsStated ==
    CoinAnalysisComplete =>
        /\ result.dimensions_source = "coin_reference"
        /\ result.dimensions_confidence >= 700

\* the methods that detect a reference, as dimensions_source names them
ReferenceSources == {"yolo_v8", "fast_hough_silver", "coin", "aruco"}

\* C16: a complete analysis in which a reference was detected reports
\* measurement_mode "coin_reference" and reference_detected; its
\* dimensions_source names the method that found the reference and is never
\* "coin_reference".  The dimensions confidence is the detection's
\* confidence plus 0.15, capped at 0.95: at least 0.70 when the fast search,
\* the thorough search or the marker search found the reference, and for
\* the detector at least 0.70 only from a detection confidence of 0.55.
C16_CoinReport ==
    CoinAnalysisComplete =>
        /\ result.measurement_mode = "coin_reference"
        /\ result.reference_detected
        /\ result.dimensions_source \in ReferenceSources
        /\ result.dimensions_source = dim_result.method_used
        /\ result.dimensions_confidence = Min(950, dim_result.confidence + 150)
        /\ result.dimensions_source # "yolo_v8" => result.dimensions_confidence >= 700
        /\ result.dimensions_source = "yolo_v8" =>
             (result.dimensions_confidence >= 700 <=> coin_info.confidence >= 550)

\* the fast search found a coin at its acceptance score of 0.55, and the
\* complete analysis reports the confidence 0.70
C16_Witness ==
    /\ CoinAnalysisComplete
    /\ result.dimensions_source = "fast_hough_silver"
    /\ result.dimensions_confidence = 700

\* ======================================================================
\* Properties of TalisayGuard.verify on pictures of known pixels
\* ======================================================================
\* C17 as stated: a picture that is half a pure-red blob on white, given to
\* verify without a mask or a detector box, is rejected with the verdict
\* REJECT_NON_TALISAY_FRUIT.
C17_AsStated ==
    (image \in RedBlobs /\ ret.returned) =>
        ~ret.accepted /\ ret.verdict = "reject_non_talisay_fruit"

\* ======================================================================
\* TalisayGuard._check_talisay_colour called on its own, on one fruit
\* region of a picture and then on the same region after pixels of the
\* picture were repainted.  The region is fixed: fruit_mask does not change.
\* ======================================================================

\* pixel counts of the regions: 100 is below the layer's 200 pixel floor
RegionAreas == {100, 200, 1000}

\* a region of n_pixels pixels; only len(pixels) is read by the layer
RegionMask(n_pixels) == Mask(n_pixels, 100, n_pixels, 40, 1500, 700, 950)

\* coverages (thousandths) a whole number of the region's pixels can have
Realisable(n_pixels, c) ==
    /\ (c.g_cov * n_pixels) % 1000 = 0
    /\ (c.y_cov * n_pixels) % 1000 = 0
    /\ (c.b_cov * n_pixels) % 1000 = 0
    /\ (c.total_cov * n_pixels) % 1000 = 0

\* band coverages of the region before any repainting.  The green and the
\* yellow band share hues 30..38 and the yellow and the brown band 18..26;
\* green and brown share none, so only one of the two overlaps is drawn.
RegionColours ==
    { Colours(g, y, b, o) :
        g \in {0, 100, 140, 145, 150, 300, 600},
        y \in {0, 100, 145, 300},
        b \in {0, 140, 400},
        o \in {0, 50} }

\* the picture the region was cut from, and how much of it has been repainted
\* since: "original" is the region's band coverages before any repainting
Repainted(original, changed) ==
    [known |-> FALSE, original |-> original, changed |-> changed]

\* shares of the region (thousandths) repainted at a time
RecolourSteps == {50, 250}

\* d thousandths of the region, pixels that were in no Talisay band, now
\* lie in TALISAY_GREEN_HSV; with hue 30..38, saturation >= 60 and value
\* >= 70 they lie in TALISAY_YELLOW_HSV as well.  No other pixel changes.
recolour(c, d, also_yellow) ==
    [g_cov |-> c.g_cov + d,
     y_cov |-> IF also_yellow THEN c.y_cov + d ELSE c.y_cov,
     b_cov |-> c.b_cov,
     total_cov |-> c.total_cov + d]

InitColour ==
    /\ pc = "talisay_colour"
    /\ layers = EmptyDict
    /\ layerOrder = <<>>
    /\ green_sat = NoGreen
    /\ ret = NoRet
    /\ \E n \in RegionAreas, c \in RegionColours :
         /\ c.total_cov <= 1000
         /\ c.total_cov >= dominant_coverage(c)
         /\ c.g_cov + c.y_cov + c.b_cov - c.total_cov
                <= Max(Min(c.g_cov, c.y_cov), Min(c.y_cov, c.b_cov))
         /\ Realisable(n, c)
         /\ fruit_mask = RegionMask(n)
         /\ mask_colour = c
         /\ image = Repainted(c, 0)
    /\ CallerIdle("colour_layer")

\* colour_result = self._check_talisay_colour(hsv, fruit_mask)
CheckTalisayColour ==
    /\ pc = "talisay_colour"
    /\ SetLayer("talisay_colour",
                check_talisay_colour(fruit_mask.area, mask_colour))
    /\ pc' = "colour_returned"
    /\ UNCHANGED <<fruit_mask, mask_colour, green_sat, ret>>
    /\ UNCHANGED caller_vars

\* pixels of no band are repainted green and the layer is called again on
\* the same region
Recolour ==
    /\ pc = "colour_returned"
    /\ \E d \in RecolourSteps, also_yellow \in BOOLEAN :
         /\ mask_colour.total_cov + d <= 1000
         /\ mask_colour' = recolour(mask_colour, d, also_yellow)
         /\ image' = Repainted(image.original, image.changed + d)
    /\ layers' = Put(layers, "talisay_colour",
                     check_talisay_colour(fruit_mask.area, mask_colour'))
    /\ UNCHANGED <<pc, layerOrder, fruit_mask, green_sat, ret>>
    /\ UNCHANGED <<api_vars, apc, entry, estimator_vars, analysis_vars>>

NextColour ==
    \/ CheckTalisayColour
    \/ Recolour

SpecColour == InitColour /\ [][NextColour]_vars

\* ----------------------------------------------------------------------
\* C18  On a fixed fruit region of at least 200 pixels, repainting pixels
\*      that match no Talisay band so that they match the Talisay-green
\*      band, every other pixel unchanged, never lowers the score the
\*      Talisay colour layer returns.
\* ----------------------------------------------------------------------
ColourScored == pc = "colour_returned" /\ "talisay_colour" \in DOMAIN layers

C18_GreenNeverLowers ==
    [][(ColourScored /\ fruit_mask.area >= 200)
          => layers'["talisay_colour"].score
                 >= layers["talisay_colour"].score]_vars

\* a repainted region of at least 200 pixels: the repainting lifted the
\* dominant band over 15%, the halving went away and the score rose
C18_Witness ==
    /\ ColourScored
    /\ fruit_mask.area >= 200
    /\ image.changed > 0
    /\ dominant_coverage(image.original) < 150
    /\ dominant_coverage(mask_colour) >= 150
    /\ layers["talisay_colour"].score
           > check_talisay_colour(fruit_mask.area, image.original).score

\* ======================================================================
\* TalisayGuard._check_non_talisay_colours called on its own, on one fruit
\* region whose coverage by each reject band and by each Talisay band is
\* known.
\* ======================================================================

\* pixel counts of the regions: 50 is below the layer's 100 pixel floor
BandRegionAreas == {50, 100, 1000}

\* the picture the region was cut from: "bands" is the region's coverage
\* by each entry of reject_colours, in the dict's order (thousandths)
Banded(covs) == [known |-> FALSE, bands |-> covs]

\* coverages by the red, orange, white and dark bands.  Red (S >= 90,
\* V >= 60), white (S <= 35) and dark (V <= 20) share no pixel.
BandInputs ==
    { BandCovs(red, orange, white, dark) :
        red \in {0, 300, 320, 500}, orange \in {0, 360},
        white \in {0, 300, 320, 400}, dark \in {0, 320, 500} }

\* Talisay band coverages of the same region
BandColours ==
    { Colours(g, y, b, o) :
        g \in {0, 60, 120, 140, 400}, y \in {0, 60, 100},
        b \in {0, 60, 140}, o \in {0, 20} }

InitBands ==
    /\ pc = "non_talisay_colour"
    /\ layers = EmptyDict
    /\ layerOrder = <<>>
    /\ green_sat = NoGreen
    /\ ret = NoRet
    /\ \E n \in BandRegionAreas, covs \in BandInputs, c \in BandColours :
         /\ covs[1] + covs[6] + covs[7] <= 1000
         \* white and dark pixels lie in no Talisay band, red ones (hue at
         \* most 10) in neither the green nor the yellow band
         /\ covs[6] + covs[7] + c.total_cov <= 1000
         /\ covs[1] + c.g_cov + c.y_cov <= 1000
         /\ c.total_cov >= dominant_coverage(c)
         /\ c.g_cov + c.y_cov + c.b_cov - c.total_cov
                <= Max(Min(c.g_cov, c.y_cov), Min(c.y_cov, c.b_cov))
         /\ Realisable(n, c)
         /\ \A i \in 1..Len(covs) : (covs[i] * n) % 1000 = 0
         /\ fruit_mask = RegionMask(n)
         /\ mask_colour = c
         /\ image = Banded(covs)
    /\ CallerIdle("non_talisay_layer")

\* non_talisay_result = self._check_non_talisay_colours(image, fruit_mask)
CheckNonTalisayColours ==
    /\ pc = "non_talisay_colour"
    /\ SetLayer("non_talisay_colour",
                check_non_talisay_colours(fruit_mask.area, image.bands,
                                          mask_colour))
    /\ pc' = "bands_returned"
    /\ UNCHANGED <<fruit_mask, mask_colour, green_sat, ret>>
    /\ UNCHANGED caller_vars

NextBands == CheckNonTalisayColours

SpecBands == InitBands /\ [][NextBands]_vars

\* ----------------------------------------------------------------------
\* C19  The non-Talisay colour layer rejects exactly when the largest
\*      non-Talisay band coverage of the region exceeds 30% and the share
\*      of region pixels in the green, yellow or brown band is below 12%;
\*      a region with at least 12% Talisay-band coverage is never rejected
\*      by this layer.
\* ----------------------------------------------------------------------
BandsChecked ==
    pc = "bands_returned" /\ "non_talisay_colour" \in DOMAIN layers

\* the largest coverage among the reject bands
LargestCoverage ==
    CHOOSE v \in {image.bands[i] : i \in 1..Len(image.bands)} :
        \A i \in 1..Len(image.bands) : image.bands[i] <= v

\* the band the loop settles on: the first in the dict's order to reach the
\* largest coverage
LargestBand ==
    CHOOSE i \in 1..Len(image.bands) :
        /\ image.bands[i] = LargestCoverage
        /\ \A j \in 1..(i - 1) : image.bands[j] < LargestCoverage

WhiteOrDark == {6, 7}

\* the three band counts added up: a pixel in two bands counts twice
SummedTalisay == mask_colour.g_cov + mask_colour.y_cov + mask_colour.b_cov

C19_AsStated ==
    (BandsChecked /\ fruit_mask.area >= 100)
        => /\ layers["non_talisay_colour"].is_non_talisay
                <=> (LargestCoverage > 300 /\ mask_colour.total_cov < 120)
           /\ mask_colour.total_cov >= 120
                => ~layers["non_talisay_colour"].is_non_talisay

\* C19 (as the code has it)  On a region of at least 100 pixels the layer
\*      rejects exactly when the largest reject band covers more than 30%
\*      and the rescue does not apply; the rescue applies only when that
\*      band is the white or the dark one and the summed Talisay band
\*      coverage is above 12%.  Regions below 100 pixels are not rejected.
C19_RescueWhiteDark ==
    BandsChecked
        => (layers["non_talisay_colour"].is_non_talisay
              <=> /\ fruit_mask.area >= 100
                  /\ LargestCoverage > 300
                  /\ ~(LargestBand \in WhiteOrDark /\ SummedTalisay > 120))

\* a region mostly white with 14% Talisay colour: over 30%, rescued
C19_Witness ==
    /\ BandsChecked
    /\ fruit_mask.area >= 100
    /\ LargestCoverage > 300
    /\ LargestBand \in WhiteOrDark
    /\ SummedTalisay > 120
    /\ mask_colour.total_cov <= 140
    /\ ~layers["non_talisay_colour"].is_non_talisay

\* ======================================================================
\* TalisayGuard.verify at its capsicum layer: the blank and the person layer
\* have passed an ordinary photo, the fruit mask is over the 500 pixel gate,
\* and the picture is known by the measurements the capsicum layer takes.
\* ======================================================================

\* the picture, known by siling_colour_cov, texture_var, mean_sat and
\* relative_width of its mask pixels
ChiliPicture(siling_colour_cov, texture_var, mean_sat, relative_width) ==
    [known |-> FALSE,
     capsicum |-> <<siling_colour_cov, texture_var, mean_sat, relative_width>>]

\* one picture for every combination of the colour, the texture, the
\* saturation and the thinness criterion
ChiliPictures ==
    { ChiliPicture(siling_colour_cov, texture_var, mean_sat, relative_width) :
        siling_colour_cov \in {100, 400}, texture_var \in {20, 40},
        mean_sat \in {100, 130}, relative_width \in {50, 200} }

\* masks for every combination of the two elongation criteria and the
\* circularity criterion, one whose largest contour has fewer than 5 points
\* and one whose largest contour is below 100 pixels
ChiliMasks ==
    { Mask(20000, 300, 19000, 60, aspect, circularity, 900) :
        aspect \in {1500, 2600, 3600}, circularity \in {400, 600} }
    \cup { Mask(20000, 300, 19000, 4, 3600, 400, 900),
           Mask(6000, 100, 80, 12, 1600, 600, 900) }

InitCapsicum ==
    /\ pc = "capsicum"
    /\ layers = Put(Put(EmptyDict, "blank",
                        check_blank_image(2000, 50, 100, 2000)),
                    "person", check_person(0, 0, 0, 0))
    /\ layerOrder = <<"blank", "person">>
    /\ fruit_mask \in ChiliMasks
    /\ mask_colour = NoColour
    /\ green_sat = NoGreen
    /\ ret = NoRet
    /\ image \in ChiliPictures
    /\ CallerIdle("verify")

NextCapsicum == CapsicumLayer

SpecCapsicum == InitCapsicum /\ [][NextCapsicum]_vars

\* ----------------------------------------------------------------------
\* C20  The capsicum score the guard computes lies in [0, 1] for every
\*      combination of the colour, elongation, circularity, texture,
\*      saturation and thinness criteria, and the layer rejects with
\*      REJECT_CAPSICUM exactly when that score is at least 0.45.
\* ----------------------------------------------------------------------
CapsicumDecided ==
    pc \in {"non_talisay_colour", "done"} /\ "capsicum" \in DOMAIN layers

RejectedAsCapsicum == ret.returned /\ ret.verdict = "reject_capsicum"

C20_AsStated ==
    CapsicumDecided
        => /\ layers["capsicum"].score \in 0..1000
           /\ RejectedAsCapsicum
                <=> layers["capsicum"].score >= MAX_CAPSICUM_SCORE

\* ======================================================================
\* DimensionEstimator._detect_coin_reference called on its own: the thorough
\* coin search.  What cv2.HoughCircles finds in the picture is an input: the
\* circles in the order the six calls return them, each with what the
\* scoring measures inside and around it.
\* ======================================================================

\* a circle HoughCircles returned: centre, radius, and "look", the sum of
\* the score terms 1 to 5 that are measured on the pixels (rim continuity,
\* metallic ratio, rim edge density, contrast, uniformity), in thousandths;
\* HardRejected when the interior is green, too variable, washed out, black
\* or below 200 pixels
Hough(x, y, r, look) == [x |-> x, y |-> y, r |-> r, look |-> look]

HardRejected == -1

\* the image the search works on: downscaled to 1200 wide above that width
work_image(img) ==
    IF img.w > 1200
    THEN [h |-> (img.h * 1200) \div img.w, w |-> 1200]
    ELSE [h |-> img.h, w |-> img.w]

\* min_radius = max(20, int(w * 0.025))
min_radius(w) == Max(20, (w * 25) \div 1000)

\* max_radius = min(int(w * 0.12), int(h * 0.20))
max_radius(w, h) == Min((w * 12) \div 100, (h * 20) \div 100)

\* dedup_thr = max(20, min_radius // 2)
dedup_thr(w) == Max(20, min_radius(w) \div 2)

\* (c[0]-u[0])**2 + (c[1]-u[1])**2
dist2(c, u) == (c.x - u.x) * (c.x - u.x) + (c.y - u.y) * (c.y - u.y)

\* r_ratio = max(c[2], u[2]) / max(1, min(c[2], u[2])) < 1.25
similar_radius(c, u) == 4 * Max(c.r, u.r) < 5 * Max(1, Min(c.r, u.r))

\* the inner loop of the dedup over "unique": the first u within dedup_thr
\* decides (break), keep stays True when none is
RECURSIVE keeps(_, _, _, _)
keeps(c, unique, i, thr) ==
    IF i > Len(unique) THEN TRUE
    ELSE IF dist2(c, unique[i]) < thr * thr
    THEN ~similar_radius(c, unique[i])
    ELSE keeps(c, unique, i + 1, thr)

\* variant: of two near-identical circles the larger is kept
RECURSIVE dedup_larger(_, _, _, _)
dedup_larger(all_circles, n, unique, thr) ==
    IF n > Len(all_circles) THEN unique
    ELSE LET c == all_circles[n]
             near == { i \in 1..Len(unique) :
                         dist2(c, unique[i]) < thr * thr
                         /\ similar_radius(c, unique[i]) }
         IN IF near = {}
            THEN dedup_larger(all_circles, n + 1, Append(unique, c), thr)
            ELSE LET i == CHOOSE j \in near : \A k \in near : j <= k
                 IN dedup_larger(all_circles, n + 1,
                                 IF c.r > unique[i].r
                                 THEN [unique EXCEPT ![i] = c]
                                 ELSE unique,
                                 thr)

\* "for c in all_circles: ... if keep: unique.append(c)", from circle n on
RECURSIVE dedup(_, _, _, _)
dedup(all_circles, n, unique, thr) ==
    IF n > Len(all_circles) THEN unique
    ELSE dedup(all_circles, n + 1,
               IF keeps(all_circles[n], unique, 1, thr)
               THEN Append(unique, all_circles[n])
               ELSE unique,
               thr)

\* margin = max(5, r // 10); x-r < margin or x+r >= w-margin or ...
near_border(w, h, c) ==
    LET margin == Max(5, c.r \div 10)
    IN \/ c.x - c.r < margin
       \/ c.x + c.r >= w - margin
       \/ c.y - c.r < margin
       \/ c.y + c.r >= h - margin

\* variant: pos_x > 0.50, the right half of the image
too_far_right_half(w, c) == 2 * c.x > w

\* pos_x = x / w; pos_x > 0.55
too_far_right(w, c) == 100 * c.x > 55 * w

\* size_ratio = (2 * r) / w; not (0.04 < size_ratio < 0.25)
wrong_size(w, c) == ~(4 * w < 200 * c.r /\ 200 * c.r < 25 * w)

\* max(0, (0.55 - pos_x) / 0.55) * 0.07, in thousandths
position_term(w, c) == Max(0, RoundDiv(70 * (55 * w - 100 * c.x), 55 * w))

\* the size preference: 0.10 for 0.06 < size_ratio < 0.16, 0.07 for
\* 0.05 < size_ratio < 0.20, 0.03 otherwise
size_term(w, c) ==
    IF 6 * w < 200 * c.r /\ 200 * c.r < 16 * w THEN 100
    ELSE IF 5 * w < 200 * c.r /\ 200 * c.r < 20 * w THEN 70
    ELSE 30

\* the circles of "unique" that reach scored_circles.append, from circle n
\* on, each with its score
RECURSIVE score_circles(_, _, _, _)
score_circles(w, h, unique, n) ==
    IF n > Len(unique) THEN <<>>
    ELSE LET c == unique[n]
             rest == score_circles(w, h, unique, n + 1)
         IN IF \/ near_border(w, h, c)
               \/ too_far_right(w, c)
               \/ wrong_size(w, c)
               \/ c.look = HardRejected
            THEN rest
            ELSE <<[x |-> c.x, y |-> c.y, r |-> c.r,
                    score |-> c.look + position_term(w, c) + size_term(w, c)]>>
                 \o rest

\* candidate[2] > best[2] * 1.3, dist < best[2] * 1.5 and
\* candidate[3] > best[3] * 0.85: best = candidate
prefers(best, candidate) ==
    /\ 10 * candidate.r > 13 * best.r
    /\ 4 * dist2(candidate, best) < 9 * best.r * best.r
    /\ 100 * candidate.score > 85 * best.score

\* "for candidate in scored_circles[1:min(10, len(scored_circles))]", from
\* index n (1-based) on
RECURSIVE prefer_larger(_, _, _)
prefer_larger(sorted, n, best) ==
    IF n > Min(10, Len(sorted)) THEN best
    ELSE prefer_larger(sorted, n + 1,
                       IF prefers(best, sorted[n]) THEN sorted[n] ELSE best)

\* scored_circles after the sort
scored_circles(w, h, all_circles) ==
    LET scored == score_circles(w, h,
                                dedup(all_circles, 1, <<>>, dedup_thr(w)), 1)
    IN sort_by_score(scored, Len(scored))

\* _detect_coin_single_pass on the work image: (best circle or None, score)
detect_coin_single_pass(w, h, all_circles) ==
    IF all_circles = <<>> THEN NoCircle
    ELSE LET unique == dedup(all_circles, 1, <<>>, dedup_thr(w))
             scored == score_circles(w, h, unique, 1)
         IN IF scored = <<>> THEN NoCircle
            ELSE LET sorted == sort_by_score(scored, Len(scored))
                     best == prefer_larger(sorted, 2, sorted[1])
                 IN Circle(best.x, best.y, best.r, best.score)

\* what the pictures show: a coin on the left that scores just above the
\* acceptance score or well above it, a slightly larger and a much larger
\* circle around it, circles right of the middle, one at the left edge and
\* one with a green interior
HoughPool ==
    { Hough(120, 200, 40, 270), Hough(120, 200, 40, 600),
      Hough(125, 205, 44, 600), Hough(122, 200, 56, 290),
      Hough(122, 200, 56, 600), Hough(270, 200, 40, 600),
      Hough(300, 200, 40, 600), Hough(30, 200, 28, 600),
      Hough(120, 200, 40, HardRejected),
      Hough(600, 400, 100, 600), Hough(640, 400, 100, 600),
      Hough(700, 400, 100, 600) }

\* the most circles the six HoughCircles calls return together
MaxCircles == 3

HoughImages == {Image(384, 512, 640), Image(960, 1280, 1600)}

\* circles HoughCircles can return on the work image: inside it, with a
\* radius between minRadius and maxRadius
HoughCircles(w, h) ==
    { c \in HoughPool :
        /\ c.x < w /\ c.y < h
        /\ min_radius(w) <= c.r /\ c.r <= max_radius(w, h) }

\* the sequences of at most n circles
RECURSIVE CirclesUpTo(_, _)
CirclesUpTo(S, n) ==
    IF n = 0 THEN {<<>>}
    ELSE LET shorter == CirclesUpTo(S, n - 1)
         IN shorter \cup { Append(q, c) : q \in shorter, c \in S }

InitCoinPass ==
    /\ pc = "idle"
    /\ GuardEntry
    /\ image = AnyImage
    /\ CallerIdle("estimator")

\* coin_result = self._detect_coin_reference(img)
DetectCoinReference ==
    /\ apc = "estimator"
    /\ \E img \in HoughImages :
         LET work == work_image(img)
         IN \E all_circles \in CirclesUpTo(HoughCircles(work.w, work.h),
                                           MaxCircles) :
              LET best == detect_coin_single_pass(work.w, work.h, all_circles)
              IN est_ret' = [op |-> "detect_coin_reference",
                             img |-> img,
                             all_circles |-> all_circles,
                             unique |-> dedup(all_circles, 1, <<>>,
                                              dedup_thr(work.w)),
                             scored_circles |->
                                 scored_circles(work.w, work.h, all_circles),
                             best |-> best,
                             out |-> detect_coin_reference(img, best)]
    /\ apc' = "estimator_returned"
    /\ UNCHANGED <<api_vars, guard_vars, entry, image, reference_type, analysis_vars>>

NextCoinPass == DetectCoinReference

SpecCoinPass == InitCoinPass /\ [][NextCoinPass]_vars

\* ----------------------------------------------------------------------
\* C21  The thorough coin search never returns a circle that touches the
\*      image border, whose centre lies in the right half of the image, or
\*      whose diameter-to-width ratio is outside [0.04, 0.25]; and a circle
\*      whose ratio is exactly 0.04 or 0.25 is not rejected for its size.
\* ----------------------------------------------------------------------
CoinPassDone == est_ret.op = "detect_coin_reference"

\* the image the circles were found in
WorkOf(r) == work_image(r.img)

TouchesBorder(w, h, c) ==
    \/ c.x - c.r <= 0 \/ c.x + c.r >= w - 1
    \/ c.y - c.r <= 0 \/ c.y + c.r >= h - 1

PassesFilters(w, h, c) ==
    /\ c.x - c.r >= Max(5, c.r \div 10)
    /\ c.x + c.r < w - Max(5, c.r \div 10)
    /\ c.y - c.r >= Max(5, c.r \div 10)
    /\ c.y + c.r < h - Max(5, c.r \div 10)
    /\ 100 * c.x <= 55 * w
    /\ 4 * w < 200 * c.r /\ 200 * c.r < 25 * w

Kept == { est_ret.unique[i] : i \in 1..Len(est_ret.unique) }

\* centres closer than dedup_thr and a radius ratio below 1.25
NearIdentical(a, b) ==
    LET thr == dedup_thr(WorkOf(est_ret).w)
    IN /\ dist2(a, b) < thr * thr
       /\ 4 * Max(a.r, b.r) < 5 * Max(1, Min(a.r, b.r))

C26_AsStated ==
    (CoinPassDone /\ est_ret.scored_circles # <<>>
                  /\ est_ret.scored_circles[1].score >= 400)
        => est_ret.out.detected

\* ----------------------------------------------------------------------
\* C23  fast_coin_search reports a coin only if the image border brightness
\*      average is at least 165, and the coin it reports is the
\*      highest-scoring candidate with score at least 0.55 whose centre is
\*      outside the shrunk fruit bounding box and, when the fruit pixel size
\*      is known, whose implied fruit length lies in [2.5, 9.0] cm and
\*      implied fruit width in [1.5, 7.0] cm; in every other case it
\*      returns a not-detected result.
\* ----------------------------------------------------------------------
FastSearchDone == est_ret.op = "fast_coin_search"

\* the scale a circle of the small image implies, in thousandths of a pixel
\* per cm: its diameter in the full image over the coin's diameter
ImpliedScale(c) ==
    RoundDiv(fast_scale_back(est_ret.img, c.r) * 2 * 100000,
             Get(reference_info(reference_type), "diameter", 240))

\* with the detector's fruit size in pixels, the fruit would be 2.5 to 9.0 cm
\* long and 1.5 to 7.0 cm wide at the circle's scale
ImpliedFruitPlausible(c) ==
    (est_ret.fruit_bbox # EmptyDict /\ "size" \in DOMAIN est_ret.fruit_bbox)
        => LET size == est_ret.fruit_bbox.size
               long == Max(size[1], size[2])
               short == Min(size[1], size[2])
           IN /\ 2500 * ImpliedScale(c) <= long * 1000000
              /\ long * 1000000 <= 9000 * ImpliedScale(c)
              /\ 1500 * ImpliedScale(c) <= short * 1000000
              /\ short * 1000000 <= 7000 * ImpliedScale(c)

\* the candidates: the circles the search scores, i.e. those clear of the
\* small image's border and with an edge ring
CandidateCircles ==
    { c \in { est_ret.circles[i] : i \in 1..Len(est_ret.circles) } :
        ~out_of_bounds(small_image(est_ret.img), c) /\ c.score # Unscored }

Eligible ==
    { c \in CandidateCircles :
        /\ c.score >= 550
        /\ ~inside_fruit_rect(est_ret.img, est_ret.fruit_bbox, c)
        /\ ImpliedFruitPlausible(c) }

C23_FastSearch ==
    FastSearchDone =>
        /\ est_ret.out.detected
              <=> (est_ret.border_brightness >= 165 /\ Eligible # {})
        /\ est_ret.out.detected =>
              \E c \in Eligible :
                  /\ \A d \in Eligible : d.score <= c.score
                  /\ est_ret.out.coin_center
                         = <<fast_scale_back(est_ret.img, c.cx),
                             fast_scale_back(est_ret.img, c.cy)>>
                  /\ est_ret.out.coin_radius = fast_scale_back(est_ret.img, c.r)
                  /\ est_ret.out.confidence = Min(900, c.score)

\* the best-scoring circle lies inside the fruit, the next one implies a
\* plausible fruit and is the coin reported
C23_Witness ==
    /\ FastSearchDone
    /\ est_ret.out.detected
    /\ "size" \in DOMAIN est_ret.fruit_bbox
    /\ \E c \in CandidateCircles :
          /\ inside_fruit_rect(est_ret.img, est_ret.fruit_bbox, c)
          /\ c.score > est_ret.out.confidence
          /\ c.score >= 550

\* ----------------------------------------------------------------------
\* FruitRegionSegmenter._refine_fruit_mask (shape_based_segmenter.py), on a
\* picture whose rows are all alike: a mask is the set of columns that are
\* 255 in every row.  On such a picture a square or elliptical kernel acts
\* as its widest row and the vertical pass of the blur changes nothing.
\* ----------------------------------------------------------------------
RowWidth == 64

Columns == 1..RowWidth

Run(lo, hi) == lo..hi

\* cv2.dilate with a kernel ksize wide: a pixel is set when the kernel
\* centred on it covers a set pixel (outside the picture nothing is set)
dilate(m, ksize) ==
    { x \in Columns : \E d \in -(ksize \div 2)..(ksize \div 2) : x + d \in m }

\* cv2.erode: a pixel stays when the kernel centred on it covers set pixels
\* only (the default border value never clears a pixel)
erode(m, ksize) ==
    { x \in Columns :
        \A d \in -(ksize \div 2)..(ksize \div 2) :
            (x + d) \in Columns => (x + d) \in m }

\* cv2.morphologyEx(m, cv2.MORPH_CLOSE, kernel)
morph_close(m, ksize) == erode(dilate(m, ksize), ksize)

\* cv2.morphologyEx(m, cv2.MORPH_OPEN, kernel)
morph_open(m, ksize) == dilate(erode(m, ksize), ksize)

\* BORDER_REFLECT_101: the column read for x outside the picture
reflect101(x) ==
    IF x < 1 THEN 2 - x
    ELSE IF x > RowWidth THEN 2 * RowWidth - x
    ELSE x

\* the 5-tap kernel of cv2.GaussianBlur(m, (5, 5), 0), in sixteenths
gaussian5(d) == IF d = 0 THEN 6 ELSE IF Abs(d) = 1 THEN 4 ELSE 1

\* sixteenths of 255 the blurred pixel holds
RECURSIVE blurred(_, _, _)
blurred(m, x, d) ==
    IF d > 2 THEN 0
    ELSE (IF reflect101(x + d) \in m THEN gaussian5(d) ELSE 0)
         + blurred(m, x, d + 1)

\* cv2.GaussianBlur then cv2.threshold(refined, 127, 255, THRESH_BINARY):
\* the pixel value is 255 * sixteenths / 16 rounded half up, kept above 127
blur_threshold(m) ==
    { x \in Columns : (255 * blurred(m, x, -2) + 8) \div 16 > 127 }

\* lines 433-442: close with the 15 x 15 kernel, open with the 5 x 5 one,
\* blur and threshold
finish_mask(refined, shadow_mask) ==
    blur_threshold(morph_open(morph_close(refined, 15), 5))

\* lines 404-416: the mask cut to the shrunk ellipse, or the ellipse itself
\* when less than half of it is left
primary_shape(mask, ellipse) ==
    IF ellipse = <<>>
    THEN mask
    ELSE LET ellipse_mask == ellipse[1]
         IN IF 2 * Cardinality(ellipse_mask \cap mask) < Cardinality(ellipse_mask)
            THEN ellipse_mask
            ELSE ellipse_mask \cap mask

\* _refine_fruit_mask(img, mask, contour, shadow_mask, ellipse): dark and
\* dark_gray are the columns with V < 35 and with S < 30 and V < 80
refine_fruit_mask(mask, shadow_mask, dark, dark_gray, ellipse) ==
    LET refined == primary_shape(mask, ellipse) \ shadow_mask
        lit == (refined \ dark) \ dark_gray
    IN finish_mask(lit, shadow_mask)

\* the candidate's mask: a band of the picture
CandidateMasks ==
    { Run(lo, hi) : lo \in {1, 16, 22}, hi \in {40, 50, RowWidth} }

\* the shadow mask _detect_shadows returns, closed and opened with a 7 x 7
\* kernel: nothing, or a band at least 7 wide
ShadowMasks ==
    {{}} \cup { Run(lo, lo + wd - 1) : lo \in {1, 30, 36, 48}, wd \in {7, 10, 14, 15} }

\* columns too dark to be fruit (V < 35), too few to survive the shadow
\* mask's opening, and dark grey ones
DarkColumns == {{}, Run(26, 28)}

DarkGrayColumns == {{}, Run(33, 34)}

\* the candidate's fitted ellipse, shrunk and drawn (<<>> for ellipse=None):
\* none, one over the mask and one mostly beside it
EllipseMasks == {<<>>, <<Run(18, 48)>>, <<Run(36, 60)>>}

InitRefine ==
    /\ pc = "idle"
    /\ GuardEntry
    /\ image = AnyImage
    /\ CallerIdle("segmenter")

\* FruitRegionSegmenter.segment, step 5, and the result it builds
RefineFruitMask ==
    /\ apc = "segmenter"
    /\ \E mask \in CandidateMasks, shadow_mask \in ShadowMasks,
          dark \in DarkColumns, dark_gray \in DarkGrayColumns,
          ellipse \in EllipseMasks :
         segmentation_result' =
             [success |-> TRUE,
              candidate |-> mask,
              ellipse |-> ellipse,
              shadow_mask |-> shadow_mask,
              mask |-> refine_fruit_mask(mask, shadow_mask, dark, dark_gray,
                                         ellipse)]
    /\ apc' = "segmenter_returned"
    /\ UNCHANGED <<api_vars, guard_vars, entry, image, estimator_vars, skip_fruit_validation,
                   calls, yolo_fruit_info, coin_info, dim_result, result>>

NextRefine == RefineFruitMask

SpecRefine == InitRefine /\ [][NextRefine]_vars

\* ----------------------------------------------------------------------
\* C24  The refined fruit mask never marks as fruit a pixel of the shadow
\*      mask: the shadow removal is not undone by the ellipse fallback, the
\*      morphological close and open or the blur and threshold after it.
\* ----------------------------------------------------------------------
MaskRefined == apc = "segmenter_returned"

C24_AsStated ==
    MaskRefined =>
        segmentation_result.mask \cap segmentation_result.shadow_mask = {}

\* ----------------------------------------------------------------------
\* C25  Whenever verify accepts, the composite score is at least 0.50; the
\*      rule that forces a rejection when the composite is below 0.35 never
\*      changes an outcome: whatever the positive layers would accept has a
\*      composite of at least 0.35 already.
\* ----------------------------------------------------------------------
\* "accepted" as the disjunction at lines 280-283 leaves it, before the
\* forced rejection
AcceptedOnLayers(r) ==
    \/ PassedOf(r) >= 3
    \/ (PassedOf(r) >= 2 /\ CompositeOf(r) >= 550000)

C25_AcceptedScore ==
    Decided =>
        /\ (ret.accepted => CompositeOf(ret) >= 500000)
        /\ (ret.accepted => ret.score >= 500)
        /\ (AcceptedOnLayers(ret) => CompositeOf(ret) >= 350000)
        /\ \A n \in {"talisay_colour", "talisay_shape", "talisay_texture"} :
              ret.layers[n].passes => ret.layers[n].score >= 500

\* accepted on three passing layers that score 0.50 each
C25_Witness ==
    /\ Decided
    /\ ret.accepted
    /\ PassedOf(ret) = 3
    /\ CompositeOf(ret) = 500000

\* ----------------------------------------------------------------------
\* C27  The round-object gate rejects only regions whose measured
\*      circularity is above 0.90 and whose measured aspect ratio is below
\*      1.08: a region with no measurable shape (no contour, or a largest
\*      contour of area below 300) is never rejected as too round.
\* ----------------------------------------------------------------------
\* verify returned from the round-object gate
RejectedTooRound ==
    /\ ret.returned
    /\ ret.verdict = "reject_wrong_shape"
    /\ "talisay_texture" \notin DOMAIN ret.layers

C27_AsStated ==
    RejectedTooRound =>
        /\ fruit_mask.has_contour
        /\ fruit_mask.contour_area >= 300
        /\ fruit_mask.circularity > 900
        /\ fruit_mask.aspect < 1080

\* ----------------------------------------------------------------------
\* api.py: the Flask server started with threaded=True (line 641) answers
\* each request on a thread of its own.  A thread can be switched out
\* between any two statements, so each read and each write of the globals
\* predictor, predictor_error and _predictor_initialized is a step.
\* ----------------------------------------------------------------------
NumThreads == 3

Threads == 1..NumThreads

\* the exception text of a failed import or a failed construction
ImportErrors == {NoneStr, "No module named 'cv2'"}

InitApi ==
    /\ pc = "idle"
    /\ GuardEntry
    /\ image = AnyImage
    /\ apc = "server"
    /\ entry = "predict_from_image"
    /\ reference_type = reference_coin
    /\ est_ret = NoCall
    /\ skip_fruit_validation = FALSE
    /\ calls = {}
    /\ yolo_fruit_info = EmptyDict
    /\ coin_info = EmptyDict
    /\ dim_result = EmptyDict
    /\ segmentation_result = EmptyDict
    /\ result = EmptyDict
    /\ predictor = NoneStr
    /\ predictor_error = NoneStr
    /\ predictor_initialized = FALSE
    /\ PREDICTOR_IMPORT_ERROR \in ImportErrors
    /\ tpc = [t \in Threads |-> "idle"]
    /\ response = [t \in Threads |-> NoneStr]

server_vars == <<guard_vars, apc, entry, image, estimator_vars, analysis_vars>>

Goto(t, position) == tpc' = [tpc EXCEPT ![t] = position]

\* POST /api/predict/image arrives: predict_from_image calls
\* _ensure_predictor
Request(t) ==
    /\ tpc[t] \in {"idle", "answered"}
    /\ Goto(t, "ensure")
    /\ response' = [response EXCEPT ![t] = NoneStr]
    /\ UNCHANGED <<server_vars, predictor, predictor_error,
                   predictor_initialized, PREDICTOR_IMPORT_ERROR>>

\* lines 78-79: if _predictor_initialized: return
TestFlag(t) ==
    /\ tpc[t] = "ensure"
    /\ Goto(t, IF predictor_initialized THEN "ensured" ELSE "set_flag")
    /\ UNCHANGED <<server_vars, predictor, predictor_error,
                   predictor_initialized, PREDICTOR_IMPORT_ERROR, response>>

\* line 80: _predictor_initialized = True
SetFlag(t) ==
    /\ tpc[t] = "set_flag"
    /\ predictor_initialized' = TRUE
    /\ Goto(t, "import_check")
    /\ UNCHANGED <<server_vars, predictor, predictor_error,
                   PREDICTOR_IMPORT_ERROR, response>>

\* lines 82-85: if TalisayPredictor is None: set predictor_error, return
ImportCheck(t) ==
    /\ tpc[t] = "import_check"
    /\ IF PREDICTOR_IMPORT_ERROR # NoneStr
       THEN /\ predictor_error' = "Failed to import TalisayPredictor"
            /\ Goto(t, "ensured")
       ELSE /\ Goto(t, "construct")
            /\ UNCHANGED predictor_error
    /\ UNCHANGED <<server_vars, predictor, predictor_initialized,
                   PREDICTOR_IMPORT_ERROR, response>>

\* lines 87-110: predictor = TalisayPredictor(...), which loads the models
\* and returns or raises
Construct(t) ==
    /\ tpc[t] = "construct"
    /\ \/ /\ predictor' = "TalisayPredictor"
          /\ UNCHANGED predictor_error
       \/ /\ predictor_error' = "model file not found"
          /\ UNCHANGED predictor
    /\ Goto(t, "ensured")
    /\ UNCHANGED <<server_vars, predictor_initialized, PREDICTOR_IMPORT_ERROR,
                   response>>

\* lines 160-166 and after: the 503 answer when predictor is None, the
\* prediction otherwise
Answer(t) ==
    /\ tpc[t] = "ensured"
    /\ response' =
         [response EXCEPT ![t] =
            IF predictor = NoneStr
            THEN [status |-> 503, error |-> "Predictor not available",
                  details |-> predictor_error]
            ELSE [status |-> 200, error |-> NoneStr, details |-> NoneStr]]
    /\ Goto(t, "answered")
    /\ UNCHANGED <<server_vars, predictor, predictor_error,
                   predictor_initialized, PREDICTOR_IMPORT_ERROR>>

NextApi ==
    \E t \in Threads :
        \/ Request(t)
        \/ TestFlag(t)
        \/ SetFlag(t)
        \/ ImportCheck(t)
        \/ Construct(t)
        \/ Answer(t)

SpecApi == InitApi /\ [][NextApi]_vars

\* ----------------------------------------------------------------------
\* C28  Under any interleaving of concurrent requests, once
\*      _ensure_predictor has returned to a request either the predictor is
\*      initialised or predictor_error is set, and no request is answered
\*      'Predictor not available' merely because another thread's
\*      initialisation is still in progress.
\* ----------------------------------------------------------------------
\* some thread is between setting the flag and the end of _ensure_predictor
Initialising == \E u \in Threads : tpc[u] \in {"import_check", "construct"}

C28_AsStated ==
    \A t \in Threads :
        /\ tpc[t] = "ensured" =>
              (predictor # NoneStr \/ predictor_error # NoneStr)
        /\ (tpc[t] = "answered" /\ response[t].status = 503) =>
              response[t].details # NoneStr

\* ----------------------------------------------------------------------
\* TalisayValidator.validate (fruit_validator.py), steps 1 and 2.  A mask
\* is an 8-bit image of 0 and 255; what is known of it is the number of
\* its 255 pixels (None for no mask).
\* ----------------------------------------------------------------------
\* np.sum(fruit_mask): the sum of the pixel values
np_sum(pixels) == 255 * pixels

\* line 227: fruit_mask is None or np.sum(fruit_mask) < 500
no_fruit(pixels) == pixels = None \/ np_sum(pixels) < 500

\* lines 197-221: the coin_result validate works with; is_coin is what
\* _detect_coin finds when the caller passed no coin_info
coin_result_of(info, is_coin) ==
    IF info # EmptyDict
    THEN IF Get(info, "detected", FALSE)
         THEN [is_coin |-> TRUE, has_center |-> TRUE,
               detection_method |-> "external_precomputed"]
         ELSE [is_coin |-> FALSE, has_center |-> FALSE,
               detection_method |-> "external_no_coin"]
    ELSE [is_coin |-> is_coin, has_center |-> is_coin,
          detection_method |-> "internal"]

\* _detect_fruit_regions: the provided mask less the pixels under the coin's
\* circle, or the regions found by colour (None when no region is larger
\* than 1% of the image)
detect_fruit_regions(provided_mask, coin_result, under_coin, by_colour) ==
    IF provided_mask # None
    THEN IF coin_result.is_coin /\ coin_result.has_center
         THEN provided_mask - Min(under_coin, provided_mask)
         ELSE provided_mask
    ELSE by_colour

\* validate up to the end of step 2; later is what steps 3 to 5 make of a
\* mask that is let through
validate(info, is_coin, provided_mask, under_coin, by_colour, later) ==
    LET coin_result == coin_result_of(info, is_coin)
        pixels == detect_fruit_regions(provided_mask, coin_result, under_coin,
                                       by_colour)
    IN IF no_fruit(pixels)
       THEN IF coin_result.is_coin
            THEN [is_talisay |-> FALSE, result |-> "coin_only",
                  confidence |-> 950, step |-> 2,
                  coin_result |-> coin_result, fruit_mask |-> pixels]
            ELSE [is_talisay |-> FALSE, result |-> "no_object",
                  confidence |-> 900, step |-> 2,
                  coin_result |-> coin_result, fruit_mask |-> pixels]
       ELSE [is_talisay |-> later = "talisay", result |-> later,
             confidence |-> 700, step |-> IF later = "non_talisay" THEN 3 ELSE 5,
             coin_result |-> coin_result, fruit_mask |-> pixels]

\* coin_info as analyze_image passes it, or none
ValidatorCoinInputs ==
    {EmptyDict, [detected |-> FALSE],
     [detected |-> TRUE, coin_center |-> <<150, 200>>, coin_radius |-> 60]}

\* the 255 pixels of the mask the caller provides
ProvidedMasks == {None, 0, 1, 2, 100, 499, 500, 20000}

\* pixels of the provided mask under the coin's circle
UnderCoin == {0, 1, 19600}

\* the regions found by colour in a 200 x 200 picture, each above 1%
ByColour == {None, 450, 20000}

\* what steps 3 to 5 can return
LaterResults == {"non_talisay", "talisay", "unknown", "uncertain"}

InitValidator ==
    /\ pc = "idle"
    /\ GuardEntry
    /\ image = AnyImage
    /\ CallerIdle("validator")

\* validation_result = self.fruit_validator.validate(img_array,
\*     segmentation_mask=fruit_mask, coin_info=validator_coin_info)
ValidatorValidate ==
    /\ apc = "validator"
    /\ \E info \in ValidatorCoinInputs, is_coin \in BOOLEAN,
          provided_mask \in ProvidedMasks, under_coin \in UnderCoin,
          by_colour \in ByColour, later \in LaterResults :
         /\ coin_info' = info
         /\ segmentation_result' = [mask |-> provided_mask]
         /\ result' = [fruit_validation |->
                          validate(info, is_coin, provided_mask, under_coin,
                                   by_colour, later)]
    /\ apc' = "validator_returned"
    /\ UNCHANGED <<api_vars, guard_vars, entry, image, estimator_vars,
                   skip_fruit_validation, calls, yolo_fruit_info, dim_result>>

NextValidator == ValidatorValidate

SpecValidator == InitValidator /\ [][NextValidator]_vars

\* ----------------------------------------------------------------------
\* C29  TalisayValidator.validate treats a mask of fewer than 500
\*      foreground pixels as no fruit, the threshold of the guard: it
\*      returns COIN_ONLY if a coin was detected and NO_OBJECT otherwise,
\*      and never goes on to the colour and shape validation.
\* ----------------------------------------------------------------------
Validated == apc = "validator_returned"

C29_AsStated ==
    LET v == result.fruit_validation
    IN (Validated /\ v.fruit_mask # None /\ v.fruit_mask < 500) =>
          /\ v.step = 2
          /\ v.result = IF v.coin_result.is_coin THEN "coin_only" ELSE "no_object"

\* ----------------------------------------------------------------------
\* TalisayGuard._check_talisay_shape called on its own, on masks that
\* differ in the aspect ratio of their largest contour only.
\* ----------------------------------------------------------------------
AspectInputs ==
    {1000, 1099, 1100, 1200, 1249, 1250, 1300, 1466, 1467, 1825, 2184, 2185,
     2400, 2401, 2600, 2601, 3000}

CircularityInputs == {300, 600, 950}

SolidityInputs == {700, 750, 900}

\* a mask of 20000 pixels whose largest contour has the given shape
Shaped(aspect, circularity, solidity) ==
    Mask(20000, 300, 19000, 60, aspect, circularity, solidity)

InitShape ==
    /\ pc = "talisay_shape"
    /\ layers = EmptyDict
    /\ layerOrder = <<>>
    /\ mask_colour = NoColour
    /\ green_sat = NoGreen
    /\ ret = NoRet
    /\ \E a \in AspectInputs, c \in CircularityInputs, s \in SolidityInputs :
         /\ fruit_mask = Shaped(a, c, s)
         /\ image = [known |-> FALSE, original |-> Shaped(a, c, s)]
    /\ CallerIdle("shape_layer")

\* shape_result = self._check_talisay_shape(fruit_mask)
CheckTalisayShape ==
    /\ pc = "talisay_shape"
    /\ SetLayer("talisay_shape", check_talisay_shape(fruit_mask))
    /\ pc' = "shape_returned"
    /\ UNCHANGED <<fruit_mask, mask_colour, green_sat, ret>>
    /\ UNCHANGED caller_vars

\* the layer is called again on a mask of another aspect ratio and the same
\* circularity and solidity
Restretch ==
    /\ pc = "shape_returned"
    /\ \E a \in AspectInputs :
         /\ a # fruit_mask.aspect
         /\ fruit_mask' = Shaped(a, fruit_mask.circularity, fruit_mask.solidity)
    /\ layers' = Put(layers, "talisay_shape", check_talisay_shape(fruit_mask'))
    /\ UNCHANGED <<pc, layerOrder, mask_colour, green_sat, ret>>
    /\ UNCHANGED caller_vars

NextShape ==
    \/ CheckTalisayShape
    \/ Restretch

SpecShape == InitShape /\ [][NextShape]_vars

\* ----------------------------------------------------------------------
\* C30  In the shape layer an aspect ratio inside the Talisay range
\*      [1.25, 2.40] never contributes less to the shape score than an
\*      aspect ratio outside it, the other shape measurements being equal.
\* ----------------------------------------------------------------------
ShapeScored == pc = "shape_returned" /\ "talisay_shape" \in DOMAIN layers

InTalisayRange(aspect) == 1250 <= aspect /\ aspect <= 2400

C30_AsStated ==
    (/\ ShapeScored
     /\ InTalisayRange(fruit_mask.aspect)
     /\ ~InTalisayRange(image.original.aspect))
    => layers["talisay_shape"].score
           >= check_talisay_shape(image.original).score

============================================================================
